---- MODULE Spec2Model ----
(***************************************************************************)
(* ESPEED32 configuration backup / restore and firmware update over the    *)
(* local access point (wifi_backup.cpp).  Text is modelled as a sequence   *)
(* of one-character strings, so that serialisation (buildJsonBackup) and   *)
(* the keyed substring scanner (parseJsonInt / parseJsonStr /              *)
(* parseAndValidateJson) are computed as the code computes them.           *)
(***************************************************************************)
EXTENDS Integers, Sequences, FiniteSets, TLC

(***************************************************************************)
(* Program constants                                                       *)
(***************************************************************************)
\* slot_ESC.h: number of car profiles.  The firmware value is 20; the model
\* is checked with a smaller profile array (every loop over the array and
\* the selectedCarNumber range are written in terms of this name).
CAR_MAX_COUNT == 2
CAR_NAME_MAX_SIZE == 5
MIN_SPEED_MAX_VALUE == 90
DRAG_MAX_VALUE == 100
FREQ_MAX_VALUE == 5000
BRAKE_MAX_VALUE == 100
THROTTLE_CURVE_SPEED_DIFF_MAX_VALUE == 90
THROTTLE_CURVE_SPEED_DIFF_MIN_VALUE == 10
ANTISPIN_MAX_VALUE == 255
FREQ_MIN_VALUE == 1000
SCREENSAVER_TIMEOUT_MAX == 120
SOUND_MODE_OFF == 0
SOUND_MODE_ALL == 2
THROTTLE_NORMALIZED == 256
\* char tempName[16] in parseAndValidateJson
TEMP_NAME_SIZE == 16
\* Constants of the current slot_ESC.h that the handlers use but whose
\* defining lines are not part of the available sources.
STORED_VAR_VERSION == 7
LANG_NOR == 0
LANG_ACD == 2
TEXT_CASE_UPPER == 0
TEXT_CASE_PASCAL == 1
FONT_SIZE_LARGE == 0
FONT_SIZE_SMALL == 1
STARTUP_DELAY_MIN == 0
STARTUP_DELAY_MAX == 50
SCREENSAVER_TEXT_MAX == 8

\* int32_t / int16_t / uint16_t value ranges
INT32_MAX == 2147483647
INT32_MIN == -INT32_MAX - 1

(***************************************************************************)
(* Key names of the backup text format                                     *)
(***************************************************************************)
K_version ==
  <<"v", "e", "r", "s", "i", "o", "n">>
K_selectedCarNumber ==
  <<"s", "e", "l", "e", "c", "t", "e", "d", "C", "a", "r", "N", "u", "m", "b", "e", "r">>
K_minTrigger_raw ==
  <<"m", "i", "n", "T", "r", "i", "g", "g", "e", "r", "_", "r", "a", "w">>
K_maxTrigger_raw ==
  <<"m", "a", "x", "T", "r", "i", "g", "g", "e", "r", "_", "r", "a", "w">>
K_viewMode ==
  <<"v", "i", "e", "w", "M", "o", "d", "e">>
K_screensaverTimeout ==
  <<"s", "c", "r", "e", "e", "n", "s", "a", "v", "e", "r", "T", "i", "m", "e", "o", "u", "t">>
K_soundMode ==
  <<"s", "o", "u", "n", "d", "M", "o", "d", "e">>
K_gridCarSelectEnabled ==
  <<"g", "r", "i", "d", "C", "a", "r", "S", "e", "l", "e", "c", "t", "E", "n", "a", "b", "l", "e", "d">>
K_raceViewMode ==
  <<"r", "a", "c", "e", "V", "i", "e", "w", "M", "o", "d", "e">>
K_language ==
  <<"l", "a", "n", "g", "u", "a", "g", "e">>
K_textCase ==
  <<"t", "e", "x", "t", "C", "a", "s", "e">>
K_listFontSize ==
  <<"l", "i", "s", "t", "F", "o", "n", "t", "S", "i", "z", "e">>
K_startupDelay ==
  <<"s", "t", "a", "r", "t", "u", "p", "D", "e", "l", "a", "y">>
K_screensaverLine1 ==
  <<"s", "c", "r", "e", "e", "n", "s", "a", "v", "e", "r", "L", "i", "n", "e", "1">>
K_screensaverLine2 ==
  <<"s", "c", "r", "e", "e", "n", "s", "a", "v", "e", "r", "L", "i", "n", "e", "2">>
K_cars ==
  <<"c", "a", "r", "s">>
K_name ==
  <<"n", "a", "m", "e">>
K_minSpeed ==
  <<"m", "i", "n", "S", "p", "e", "e", "d">>
K_brake ==
  <<"b", "r", "a", "k", "e">>
K_dragBrake ==
  <<"d", "r", "a", "g", "B", "r", "a", "k", "e">>
K_maxSpeed ==
  <<"m", "a", "x", "S", "p", "e", "e", "d">>
K_curveInput ==
  <<"c", "u", "r", "v", "e", "I", "n", "p", "u", "t">>
K_curveDiff ==
  <<"c", "u", "r", "v", "e", "D", "i", "f", "f">>
K_antiSpin ==
  <<"a", "n", "t", "i", "S", "p", "i", "n">>
K_freqPWM ==
  <<"f", "r", "e", "q", "P", "W", "M">>
K_brakeButton ==
  <<"b", "r", "a", "k", "e", "B", "u", "t", "t", "o", "n">>
K_carNumber ==
  <<"c", "a", "r", "N", "u", "m", "b", "e", "r">>

(***************************************************************************)
(* Arduino String primitives, with the 0-based indices of the code         *)
(***************************************************************************)
Min(S) == CHOOSE x \in S : \A y \in S : x <= y

QUOTE == "\""
NL == "\n"

Digits == <<"0", "1", "2", "3", "4", "5", "6", "7", "8", "9">>

isDigit(c) == \E d \in 1..10 : Digits[d] = c

DigitVal(c) == (CHOOSE d \in 1..10 : Digits[d] = c) - 1

\* String::indexOf(const String&, fromIndex): first index >= from at which
\* pat occurs, -1 when there is none.  fromIndex is unsigned in the library:
\* a negative int converts to a value >= length, which yields -1.
indexOf(s, pat, from) ==
  IF from < 0 \/ from >= Len(s) THEN -1
  ELSE LET m == Len(pat)
           c1 == pat[1]
           hits == {i \in (from + 1)..(Len(s) - m + 1) :
                      s[i] = c1 /\ \A k \in 2..m : s[i + k - 1] = pat[k]}
       IN  IF hits = {} THEN -1 ELSE Min(hits) - 1

\* String::substring(left, right): characters [left, right), clipped.
substring(s, left, right) ==
  LET l == IF left > right THEN right ELSE left
      r0 == IF left > right THEN left ELSE right
      r == IF r0 > Len(s) THEN Len(s) ELSE r0
  IN  IF l >= Len(s) THEN <<>> ELSE SubSeq(s, l + 1, r)

\* String::toInt() is atol(): optional sign, then digits up to the first
\* non-digit; no digits gives 0; the result saturates at the long range
\* (32 bits).  sgn is 1 or -1; acc carries the sign.
RECURSIVE atolDigits(_, _, _, _)
atolDigits(s, i, sgn, acc) ==
  IF i > Len(s) \/ ~isDigit(s[i]) THEN acc
  ELSE LET d == DigitVal(s[i])
           lim == INT32_MAX \div 10
           over == IF sgn = 1
                   THEN acc > lim \/ (acc = lim /\ d > INT32_MAX % 10)
                   ELSE acc < -lim \/ (acc = -lim /\ d > (INT32_MAX % 10) + 1)
       IN  IF over
           THEN (IF sgn = 1 THEN INT32_MAX ELSE INT32_MIN)
           ELSE atolDigits(s, i + 1, sgn, acc * 10 + sgn * d)

toInt(s) ==
  IF s = <<>> THEN 0
  ELSE IF s[1] = "-" THEN atolDigits(s, 2, -1, 0)
  ELSE atolDigits(s, 1, 1, 0)

\* C integer conversions on assignment to the record's fields
U16(v) == v % 65536
I16(v) == (((v % 65536) + 32768) % 65536) - 32768

\* printf %u / %d of a 16-bit field (promoted to int)
RECURSIVE DecDigits(_)
DecDigits(n) ==
  IF n < 10 THEN <<Digits[n + 1]>>
  ELSE DecDigits(n \div 10) \o <<Digits[(n % 10) + 1]>>

FmtU(n) == DecDigits(n)

FmtD(n) == IF n < 0 THEN <<"-">> \o DecDigits(-n) ELSE DecDigits(n)

(***************************************************************************)
(* Record Codec: buildJsonBackup                                           *)
(***************************************************************************)
CarIdx == 0..(CAR_MAX_COUNT - 1)

\* Bytes that are not characters of the text alphabet
NUL == "NUL"

\* The character with byte value b (1 .. 3), as printed by %s
CtrlChar(b) == <<"^A", "^B", "^C">>[b]

\* printf %s of c.carName: the characters up to the first NUL byte.  A
\* carName that fills all CAR_NAME_MAX_SIZE bytes has no terminator inside
\* the array, and the read runs on through the alignment byte that follows
\* carName (pad: its content is not defined by the program) and then
\* through the two bytes of carNumber (little endian).
PrintedCarName(c, pad) ==
  IF Len(c.carName) < CAR_NAME_MAX_SIZE THEN c.carName
  ELSE IF pad = NUL THEN c.carName
  ELSE IF c.carNumber % 256 = 0 THEN c.carName \o <<pad>>
  ELSE c.carName \o <<pad, CtrlChar(c.carNumber % 256)>>

Indent(n) == [i \in 1..n |-> " "]

\* sprintf(buf, "<indent>\"key\": <value><tail>\n")
JsonLine(ind, key, value, tail) ==
  Indent(ind) \o <<QUOTE>> \o key \o <<QUOTE, ":", " ">> \o value \o tail \o <<NL>>

Quoted(str) == <<QUOTE>> \o str \o <<QUOTE>>

CarBlock(c, pad, last) ==
  Indent(4) \o <<"{", NL>>
  \o JsonLine(6, K_name, Quoted(PrintedCarName(c, pad)), <<",">>)
  \o JsonLine(6, K_minSpeed, FmtU(c.minSpeed), <<",">>)
  \o JsonLine(6, K_brake, FmtU(c.brake), <<",">>)
  \o JsonLine(6, K_dragBrake, FmtU(c.dragBrake), <<",">>)
  \o JsonLine(6, K_maxSpeed, FmtU(c.maxSpeed), <<",">>)
  \o JsonLine(6, K_curveInput, FmtU(c.throttleCurveVertex.inputThrottle), <<",">>)
  \o JsonLine(6, K_curveDiff, FmtU(c.throttleCurveVertex.curveSpeedDiff), <<",">>)
  \o JsonLine(6, K_antiSpin, FmtU(c.antiSpin), <<",">>)
  \o JsonLine(6, K_freqPWM, FmtU(c.freqPWM), <<",">>)
  \o JsonLine(6, K_brakeButton, FmtU(c.brakeButtonReduction), <<>>)
  \o Indent(4) \o <<"}">> \o (IF last THEN <<>> ELSE <<",">>) \o <<NL>>

RECURSIVE CarBlocks(_, _, _)
CarBlocks(sv, pads, i) ==
  IF i >= CAR_MAX_COUNT THEN <<>>
  ELSE CarBlock(sv.carParam[i], pads[i], i = CAR_MAX_COUNT - 1)
       \o CarBlocks(sv, pads, i + 1)

buildJsonBackup(sv, pads) ==
  <<"{", NL>>
  \o JsonLine(2, K_version, FmtD(STORED_VAR_VERSION), <<",">>)
  \o JsonLine(2, K_selectedCarNumber, FmtU(sv.selectedCarNumber), <<",">>)
  \o JsonLine(2, K_minTrigger_raw, FmtD(sv.minTrigger_raw), <<",">>)
  \o JsonLine(2, K_maxTrigger_raw, FmtD(sv.maxTrigger_raw), <<",">>)
  \o JsonLine(2, K_viewMode, FmtU(sv.viewMode), <<",">>)
  \o JsonLine(2, K_screensaverTimeout, FmtU(sv.screensaverTimeout), <<",">>)
  \o JsonLine(2, K_soundMode, FmtU(sv.soundMode), <<",">>)
  \o JsonLine(2, K_gridCarSelectEnabled, FmtU(sv.gridCarSelectEnabled), <<",">>)
  \o JsonLine(2, K_raceViewMode, FmtU(sv.raceViewMode), <<",">>)
  \o JsonLine(2, K_language, FmtU(sv.language), <<",">>)
  \o JsonLine(2, K_textCase, FmtU(sv.textCase), <<",">>)
  \o JsonLine(2, K_listFontSize, FmtU(sv.listFontSize), <<",">>)
  \o JsonLine(2, K_startupDelay, FmtU(sv.startupDelay), <<",">>)
  \o JsonLine(2, K_screensaverLine1, Quoted(sv.screensaverLine1), <<",">>)
  \o JsonLine(2, K_screensaverLine2, Quoted(sv.screensaverLine2), <<",">>)
  \o Indent(2) \o <<QUOTE>> \o K_cars \o <<QUOTE, ":", " ", "[", NL>>
  \o CarBlocks(sv, pads, 0)
  \o Indent(2) \o <<"]", NL, "}", NL>>

(***************************************************************************)
(* Record Codec: parseJsonInt, parseJsonStr                                *)
(*                                                                         *)
(* Each function is written as a chain of operators, one per local         *)
(* variable of the code: the operator that computes a local passes it on as *)
(* a parameter to the operator for the statements that follow.             *)
(***************************************************************************)
RECURSIVE SkipBlank(_, _)
\* Line 157: while (start < length && json[start] is ' ', '\n' or '\r') start++
SkipBlank(json, start) ==
  IF start < Len(json)
     /\ (json[start + 1] = " " \/ json[start + 1] = NL \/ json[start + 1] = "\r")
  THEN SkipBlank(json, start + 1)
  ELSE start

RECURSIVE ScanNumber(_, _)
\* Line 159: while (end < length && (isDigit(json[end]) || json[end] == '-')) end++
ScanNumber(json, end) ==
  IF end < Len(json) /\ (isDigit(json[end + 1]) \/ json[end + 1] = "-")
  THEN ScanNumber(json, end + 1)
  ELSE end

\* "return false" of parseJsonInt: outVal is not assigned
IntAbsent == [found |-> FALSE, val |-> 0]

\* Lines 160-162, with start and end computed
parseJsonInt_token(json, start, end) ==
  IF end = start THEN IntAbsent
  ELSE [found |-> TRUE, val |-> toInt(substring(json, start, end))]

\* Lines 158-159, with start computed
parseJsonInt_scan(json, start) ==
  parseJsonInt_token(json, start, ScanNumber(json, start))

\* Lines 155-157, with colon computed
parseJsonInt_colon(json, colon) ==
  IF colon < 0 THEN IntAbsent
  ELSE parseJsonInt_scan(json, SkipBlank(json, colon + 1))

\* Lines 153-154, with idx computed
parseJsonInt_idx(json, idx) ==
  IF idx < 0 THEN IntAbsent
  ELSE parseJsonInt_colon(json, indexOf(json, <<":">>, idx))

\* bool parseJsonInt(json, key, outVal): [found, val]
parseJsonInt(json, key) ==
  parseJsonInt_idx(json, indexOf(json, Quoted(key), 0))

\* "return false" of parseJsonStr: outStr is not written
StrAbsent == [found |-> FALSE, str |-> <<>>]

\* Lines 180-182, with len = qEnd - qStart - 1
parseJsonStr_len(json, qStart, len, maxLen) ==
  [found |-> TRUE,
   str |-> substring(json, qStart + 1,
                     qStart + 1 + (IF len >= maxLen THEN maxLen - 1 ELSE len))]

\* Lines 178-179, with qEnd computed
parseJsonStr_qEnd(json, qStart, qEnd, maxLen) ==
  IF qEnd < 0 THEN StrAbsent
  ELSE parseJsonStr_len(json, qStart, qEnd - qStart - 1, maxLen)

\* Lines 176-177, with qStart computed
parseJsonStr_qStart(json, qStart, maxLen) ==
  IF qStart < 0 THEN StrAbsent
  ELSE parseJsonStr_qEnd(json, qStart, indexOf(json, <<QUOTE>>, qStart + 1), maxLen)

\* Lines 174-175, with colon computed
parseJsonStr_colon(json, colon, maxLen) ==
  IF colon < 0 THEN StrAbsent
  ELSE parseJsonStr_qStart(json, indexOf(json, <<QUOTE>>, colon + 1), maxLen)

\* Lines 172-173, with idx computed
parseJsonStr_idx(json, idx, maxLen) ==
  IF idx < 0 THEN StrAbsent
  ELSE parseJsonStr_colon(json, indexOf(json, <<":">>, idx), maxLen)

\* bool parseJsonStr(json, key, outStr, maxLen): [found, str]
parseJsonStr(json, key, maxLen) ==
  parseJsonStr_idx(json, indexOf(json, Quoted(key), 0), maxLen)

\* A range check whose upper bound is off by one
inRangeOffByOne(val, minVal, maxVal) == val >= minVal /\ val <= maxVal + 1

inRange(val, minVal, maxVal) == val >= minVal /\ val <= maxVal

\* strncpy(dst, src, n) into a char[n]: the first n characters of src; a
\* shorter src is followed by NUL bytes (the sequence is the content up to
\* the first NUL, or all n bytes when there is none).
strncpy(src, n) == IF Len(src) > n THEN SubSeq(src, 1, n) ELSE src

(***************************************************************************)
(* Field Validator: parseAndValidateJson                                   *)
(***************************************************************************)
\* errorMsg: the literal text and, where the code appends String(i), the
\* profile index (NoIndex otherwise)
NoIndex == -1

ErrorMsg(text, i) == [text |-> text, car |-> i]

NoError == [text |-> "", car |-> NoIndex]

\* "if (parseJsonInt(json, key, v) && inRange(v, lo, hi)) field = v;" with
\* p the result of parseJsonInt
GlobalInt_set(p, lo, hi, current) ==
  IF p.found /\ inRange(p.val, lo, hi) THEN U16(p.val) ELSE current

GlobalInt(json, key, lo, hi, current) ==
  GlobalInt_set(parseJsonInt(json, key), lo, hi, current)

\* "if (parseJsonInt(json, key, v)) field = (int16_t)v;"
GlobalRaw_set(p, current) == IF p.found THEN I16(p.val) ELSE current

GlobalRaw(json, key, current) == GlobalRaw_set(parseJsonInt(json, key), current)

\* "if (parseJsonStr(json, key, tempStr, MAX)) strncpy(field, tempStr, MAX);"
GlobalStr_set(p, current) ==
  IF p.found THEN strncpy(p.str, SCREENSAVER_TEXT_MAX) ELSE current

GlobalStr(json, key, current) ==
  GlobalStr_set(parseJsonStr(json, key, SCREENSAVER_TEXT_MAX), current)

\* Lines 201-240: *sv = g_storedVar, then the device-wide settings
parseGlobals(json, cur) ==
  [cur EXCEPT
     !.selectedCarNumber =
        GlobalInt(json, K_selectedCarNumber, 0, CAR_MAX_COUNT - 1, @),
     !.minTrigger_raw = GlobalRaw(json, K_minTrigger_raw, @),
     !.maxTrigger_raw = GlobalRaw(json, K_maxTrigger_raw, @),
     !.viewMode = GlobalInt(json, K_viewMode, 0, 1, @),
     !.screensaverTimeout =
        GlobalInt(json, K_screensaverTimeout, 0, SCREENSAVER_TIMEOUT_MAX, @),
     !.soundMode = GlobalInt(json, K_soundMode, SOUND_MODE_OFF, SOUND_MODE_ALL, @),
     !.gridCarSelectEnabled = GlobalInt(json, K_gridCarSelectEnabled, 0, 1, @),
     !.raceViewMode = GlobalInt(json, K_raceViewMode, 0, 2, @),
     !.language = GlobalInt(json, K_language, LANG_NOR, LANG_ACD, @),
     !.textCase = GlobalInt(json, K_textCase, TEXT_CASE_UPPER, TEXT_CASE_PASCAL, @),
     !.listFontSize =
        GlobalInt(json, K_listFontSize, FONT_SIZE_LARGE, FONT_SIZE_SMALL, @),
     !.startupDelay =
        GlobalInt(json, K_startupDelay, STARTUP_DELAY_MIN, STARTUP_DELAY_MAX, @),
     !.screensaverLine1 = GlobalStr(json, K_screensaverLine1, @),
     !.screensaverLine2 = GlobalStr(json, K_screensaverLine2, @)]

\* Lines 272-315: the numeric profile fields in the order of the code, each
\* with its key, the bounds handed to inRange and the text of its error
CarFields ==
  <<[k |-> K_minSpeed, lo |-> 0, hi |-> MIN_SPEED_MAX_VALUE,
     err |-> "Error: invalid minSpeed in car "],
    [k |-> K_brake, lo |-> 0, hi |-> BRAKE_MAX_VALUE,
     err |-> "Error: invalid brake in car "],
    [k |-> K_dragBrake, lo |-> 0, hi |-> DRAG_MAX_VALUE,
     err |-> "Error: invalid dragBrake in car "],
    [k |-> K_maxSpeed, lo |-> 5, hi |-> 100,
     err |-> "Error: invalid maxSpeed in car "],
    [k |-> K_curveInput, lo |-> 0, hi |-> THROTTLE_NORMALIZED,
     err |-> "Error: invalid curveInput in car "],
    [k |-> K_curveDiff, lo |-> THROTTLE_CURVE_SPEED_DIFF_MIN_VALUE,
     hi |-> THROTTLE_CURVE_SPEED_DIFF_MAX_VALUE,
     err |-> "Error: invalid curveDiff in car "],
    [k |-> K_antiSpin, lo |-> 0, hi |-> ANTISPIN_MAX_VALUE,
     err |-> "Error: invalid antiSpin in car "],
    [k |-> K_freqPWM, lo |-> FREQ_MIN_VALUE \div 100, hi |-> FREQ_MAX_VALUE \div 100,
     err |-> "Error: invalid freqPWM in car "],
    [k |-> K_brakeButton, lo |-> 0, hi |-> 100,
     err |-> "Error: invalid brakeButton in car "]>>

\* The assignment that follows the test of field j: "c.<field> = v;"
SetCarField(c, j, v) ==
  CASE j = 1 -> [c EXCEPT !.minSpeed = v]
    [] j = 2 -> [c EXCEPT !.brake = v]
    [] j = 3 -> [c EXCEPT !.dragBrake = v]
    [] j = 4 -> [c EXCEPT !.maxSpeed = v]
    [] j = 5 -> [c EXCEPT !.throttleCurveVertex.inputThrottle = v]
    [] j = 6 -> [c EXCEPT !.throttleCurveVertex.curveSpeedDiff = v]
    [] j = 7 -> [c EXCEPT !.antiSpin = v]
    [] j = 8 -> [c EXCEPT !.freqPWM = v]
    [] j = 9 -> [c EXCEPT !.brakeButtonReduction = v]

RECURSIVE parseCarFields(_, _, _, _)
\* "if (!parseJsonInt(carJson, key, v) || !inRange(v, lo, hi)) { *errorMsg =
\* ...; return false; } c.<field> = v;" for field j, with p the result of
\* parseJsonInt; then the fields that follow.  On an error the fields
\* assigned so far stay assigned in *sv.
parseCarField(carJson, c, i, j, p) ==
  IF ~(p.found /\ inRange(p.val, CarFields[j].lo, CarFields[j].hi))
  THEN [ok |-> FALSE, c |-> c, err |-> ErrorMsg(CarFields[j].err, i)]
  ELSE parseCarFields(carJson, SetCarField(c, j, U16(p.val)), i, j + 1)

\* Lines 272-315 from field j on
parseCarFields(carJson, c, i, j) ==
  IF j > Len(CarFields) THEN [ok |-> TRUE, c |-> c, err |-> NoError]
  ELSE parseCarField(carJson, c, i, j, parseJsonInt(carJson, CarFields[j].k))

\* A loop body that takes the profile index from a carNumber member of the
\* profile when there is one
parseCar_nameFromBody(carJson, c0, i, nm) ==
  IF ~nm.found
  THEN [ok |-> FALSE, c |-> c0, err |-> ErrorMsg("Error: missing name in car ", i)]
  ELSE parseCarFields(carJson,
                      [c0 EXCEPT !.carName = strncpy(nm.str, CAR_NAME_MAX_SIZE),
                                 !.carNumber =
                                    GlobalRaw(carJson, K_carNumber, U16(i))],
                      i, 1)

\* Lines 264-270, with nm the result of parseJsonStr for "name"
parseCar_name(carJson, c0, i, nm) ==
  IF ~nm.found
  THEN [ok |-> FALSE, c |-> c0, err |-> ErrorMsg("Error: missing name in car ", i)]
  ELSE parseCarFields(carJson,
                      [c0 EXCEPT !.carName = strncpy(nm.str, CAR_NAME_MAX_SIZE),
                                 !.carNumber = U16(i)],
                      i, 1)

\* Lines 260-315: one pass of the loop body on the profile's text:
\* [ok, c, err], c the content of sv->carParam[i] afterwards
parseCar(carJson, c0, i) ==
  parseCar_name(carJson, c0, i, parseJsonStr(carJson, K_name, TEMP_NAME_SIZE))

RECURSIVE parseCars(_, _, _, _)
\* A loop that looks for the next block from the start of the text again
parseCars_carRescan(json, sv, i, objEnd, r) ==
  IF ~r.ok
  THEN [ok |-> FALSE, sv |-> [sv EXCEPT !.carParam[i] = r.c], errorMsg |-> r.err]
  ELSE parseCars(json, [sv EXCEPT !.carParam[i] = r.c], i + 1, 0)

\* The rest of the loop body, with r the result of parseCar for slot i
parseCars_car(json, sv, i, objEnd, r) ==
  IF ~r.ok
  THEN [ok |-> FALSE, sv |-> [sv EXCEPT !.carParam[i] = r.c], errorMsg |-> r.err]
  ELSE parseCars(json, [sv EXCEPT !.carParam[i] = r.c], i + 1, objEnd + 1)

\* A loop that gives up on a missing block without writing a message
parseCars_objSilent(json, sv, i, objStart, objEnd) ==
  IF objStart < 0 \/ objEnd < 0
  THEN [ok |-> FALSE, sv |-> sv, errorMsg |-> NoError]
  ELSE parseCars_car(json, sv, i, objEnd,
                     parseCar(substring(json, objStart, objEnd + 1),
                              sv.carParam[i], i))

\* Lines 253-258, with objStart and objEnd computed
parseCars_obj(json, sv, i, objStart, objEnd) ==
  IF objStart < 0 \/ objEnd < 0
  THEN [ok |-> FALSE, sv |-> sv,
        errorMsg |-> ErrorMsg("Error: missing car profile ", i)]
  ELSE parseCars_car(json, sv, i, objEnd,
                     parseCar(substring(json, objStart, objEnd + 1),
                              sv.carParam[i], i))

\* Line 252, with objStart computed
parseCars_start(json, sv, i, objStart) ==
  parseCars_obj(json, sv, i, objStart, indexOf(json, <<"}">>, objStart))

\* Lines 249-316: the loop over the profile slots, from slot i on
parseCars(json, sv, i, searchPos) ==
  IF i >= CAR_MAX_COUNT THEN [ok |-> TRUE, sv |-> sv, errorMsg |-> NoError]
  ELSE parseCars_start(json, sv, i, indexOf(json, <<"{">>, searchPos))

\* Lines 246-249, with searchPos computed
parseAndValidateJson_array(json, sv0, searchPos) ==
  IF searchPos < 0
  THEN [ok |-> FALSE, sv |-> sv0,
        errorMsg |-> ErrorMsg("Error: malformed cars array", NoIndex)]
  ELSE parseCars(json, sv0, 0, searchPos)

\* Lines 243-246, with *sv after the device-wide settings and carStart
parseAndValidateJson_cars(json, sv0, carStart) ==
  IF carStart < 0
  THEN [ok |-> FALSE, sv |-> sv0,
        errorMsg |-> ErrorMsg("Error: missing cars array", NoIndex)]
  ELSE parseAndValidateJson_array(json, sv0, indexOf(json, <<"[">>, carStart))

\* bool parseAndValidateJson(json, sv, errorMsg), with g_storedVar = cur:
\* [ok, sv, errorMsg]; sv is the content of *sv when the function returns.
parseAndValidateJson(json, cur) ==
  parseAndValidateJson_cars(json, parseGlobals(json, cur),
                            indexOf(json, Quoted(K_cars), 0))

(***************************************************************************)
(* Settings records                                                        *)
(***************************************************************************)
\* A profile with the default tuning values of slot_ESC.h
DefaultCar(i, name) ==
  [minSpeed |-> 20, brake |-> 95, dragBrake |-> 100, maxSpeed |-> 100,
   throttleCurveVertex |-> [inputThrottle |-> THROTTLE_NORMALIZED \div 2,
                            curveSpeedDiff |-> 50],
   antiSpin |-> 30, carName |-> name, carNumber |-> i,
   freqPWM |-> 30, brakeButtonReduction |-> 50]

\* A record as the firmware holds it after first boot
DefaultRecord ==
  [carParam |-> [i \in CarIdx |-> DefaultCar(i, <<"C", "A", "R", Digits[i + 1]>>)],
   selectedCarNumber |-> 0, minTrigger_raw |-> -120, maxTrigger_raw |-> 1900,
   viewMode |-> 0, screensaverTimeout |-> 20, soundMode |-> 2,
   gridCarSelectEnabled |-> 0, raceViewMode |-> 1, language |-> 0,
   textCase |-> 0, listFontSize |-> 0, startupDelay |-> 10,
   screensaverLine1 |-> <<"B", "O", "B">>,
   screensaverLine2 |-> <<"R", "a", "c", "i", "n", "g">>]

\* A record with every range-constrained field at the upper end of its range
UpperRecord ==
  [carParam |->
     [i \in CarIdx |->
        [minSpeed |-> MIN_SPEED_MAX_VALUE, brake |-> BRAKE_MAX_VALUE,
         dragBrake |-> DRAG_MAX_VALUE, maxSpeed |-> 100,
         throttleCurveVertex |->
           [inputThrottle |-> THROTTLE_NORMALIZED,
            curveSpeedDiff |-> THROTTLE_CURVE_SPEED_DIFF_MAX_VALUE],
         antiSpin |-> ANTISPIN_MAX_VALUE, carName |-> <<"x", "y">>,
         carNumber |-> i, freqPWM |-> FREQ_MAX_VALUE \div 100,
         brakeButtonReduction |-> 100]],
   selectedCarNumber |-> CAR_MAX_COUNT - 1,
   minTrigger_raw |-> 32767, maxTrigger_raw |-> -32768,
   viewMode |-> 1, screensaverTimeout |-> SCREENSAVER_TIMEOUT_MAX,
   soundMode |-> SOUND_MODE_ALL, gridCarSelectEnabled |-> 1, raceViewMode |-> 2,
   language |-> LANG_ACD, textCase |-> TEXT_CASE_PASCAL,
   listFontSize |-> FONT_SIZE_SMALL, startupDelay |-> STARTUP_DELAY_MAX,
   screensaverLine1 |-> <<>>, screensaverLine2 |-> <<"a", " ", "b">>]

\* The rename menu offers the characters RENAME_CAR_MIN_ASCII (32) to
\* RENAME_CAR_MAX_ASCII (122), the double quote (34) among them: a record
\* whose first profile the user named  A"B
QuoteNameRecord ==
  [DefaultRecord EXCEPT !.carParam[0].carName = <<"A", QUOTE, "B">>]

\* Records the device can hold when a session starts
InitRecords == {DefaultRecord, UpperRecord, QuoteNameRecord}

\* The records a session of the state machine starts from
SessionRecords == {DefaultRecord, QuoteNameRecord}

\* Every range-constrained field of r is inside its range and the profile
\* array has its CAR_MAX_COUNT entries
CarInRange(c) ==
  /\ c.minSpeed \in 0..90
  /\ c.brake \in 0..100
  /\ c.dragBrake \in 0..100
  /\ c.maxSpeed \in 5..100
  /\ c.throttleCurveVertex.inputThrottle \in 0..THROTTLE_NORMALIZED
  /\ c.throttleCurveVertex.curveSpeedDiff \in 10..90
  /\ c.antiSpin \in 0..255
  /\ c.freqPWM \in 10..50
  /\ c.brakeButtonReduction \in 0..100

RecordInRange(r) ==
  /\ DOMAIN r.carParam = 0..(CAR_MAX_COUNT - 1)
  /\ \A i \in DOMAIN r.carParam : CarInRange(r.carParam[i])
  /\ r.selectedCarNumber \in 0..(CAR_MAX_COUNT - 1)
  /\ r.viewMode \in 0..1
  /\ r.screensaverTimeout \in 0..SCREENSAVER_TIMEOUT_MAX
  /\ r.soundMode \in SOUND_MODE_OFF..SOUND_MODE_ALL
  /\ r.gridCarSelectEnabled \in 0..1
  /\ r.raceViewMode \in 0..2
  /\ r.language \in LANG_NOR..LANG_ACD
  /\ r.textCase \in TEXT_CASE_UPPER..TEXT_CASE_PASCAL
  /\ r.listFontSize \in FONT_SIZE_LARGE..FONT_SIZE_SMALL
  /\ r.startupDelay \in STARTUP_DELAY_MIN..STARTUP_DELAY_MAX

(***************************************************************************)
(* Request bodies a client can post to /restore                            *)
(*                                                                         *)
(* A body is described by its JSON members (BodyDesc) and rendered to text *)
(* by ClientJson; the description is what the client meant, the text is    *)
(* what the device receives.                                               *)
(***************************************************************************)
IntMember(key, n) == [k |-> key, kind |-> "int", n |-> n, s |-> <<>>]

StrMember(key, str) == [k |-> key, kind |-> "str", n |-> 0, s |-> str]

\* A member whose value is the text tok as it stands, unquoted
RawMember(key, tok) == [k |-> key, kind |-> "raw", n |-> 0, s |-> tok]

MemberText(f) ==
  Quoted(f.k) \o <<":">>
  \o (IF f.kind = "int" THEN FmtD(f.n)
      ELSE IF f.kind = "raw" THEN f.s
      ELSE Quoted(f.s))

RECURSIVE Join(_, _)
Join(texts, sep) ==
  IF texts = <<>> THEN <<>>
  ELSE IF Len(texts) = 1 THEN texts[1]
  ELSE texts[1] \o sep \o Join(Tail(texts), sep)

ObjectText(members) ==
  <<"{">> \o Join([j \in 1..Len(members) |-> MemberText(members[j])], <<",">>) \o <<"}">>

\* d.arr: "array" (a cars array of the objects d.cars), "number" (a cars
\* member that is no array), "none" (no cars member)
ClientJson(d) ==
  LET top == [j \in 1..Len(d.top) |-> MemberText(d.top[j])]
      carsText ==
        IF d.arr = "array"
        THEN <<Quoted(K_cars) \o <<":", "[">>
                 \o Join([j \in 1..Len(d.cars) |-> ObjectText(d.cars[j])], <<",">>)
                 \o <<"]">> >>
        ELSE IF d.arr = "number" THEN <<Quoted(K_cars) \o <<":", "0">> >>
        ELSE <<>>
  IN  <<"{">> \o Join(top \o carsText, <<",">>) \o <<"}">>

\* The value of member key among members: [found, n, s] of the first one
MemberOf(members, key) ==
  LET js == {j \in 1..Len(members) : members[j].k = key}
  IN  IF js = {} THEN [found |-> FALSE, n |-> 0, s |-> <<>>]
      ELSE [found |-> TRUE, n |-> members[Min(js)].n, s |-> members[Min(js)].s]

WithMember(members, key, n) ==
  [j \in 1..Len(members) |->
     IF members[j].k = key THEN IntMember(key, n) ELSE members[j]]

WithRaw(members, key, tok) ==
  [j \in 1..Len(members) |->
     IF members[j].k = key THEN RawMember(key, tok) ELSE members[j]]

WithName(members, str) ==
  [j \in 1..Len(members) |->
     IF members[j].k = K_name THEN StrMember(K_name, str) ELSE members[j]]

RECURSIVE WithoutMember(_, _)
WithoutMember(members, key) ==
  IF members = <<>> THEN <<>>
  ELSE IF Head(members).k = key THEN WithoutMember(Tail(members), key)
  ELSE <<Head(members)>> \o WithoutMember(Tail(members), key)

\* A valid profile object for slot i (values inside every range)
GoodCarMembers(i) ==
  <<StrMember(K_name, <<"c", Digits[i + 1]>>),
    IntMember(K_minSpeed, 10 + i), IntMember(K_brake, 80),
    IntMember(K_dragBrake, 70), IntMember(K_maxSpeed, 60),
    IntMember(K_curveInput, 100), IntMember(K_curveDiff, 40),
    IntMember(K_antiSpin, 25), IntMember(K_freqPWM, 15),
    IntMember(K_brakeButton, 35)>>

GoodCars == [j \in 1..CAR_MAX_COUNT |-> GoodCarMembers(j - 1)]

\* Valid device-wide members
GoodTop ==
  <<IntMember(K_version, STORED_VAR_VERSION),
    IntMember(K_selectedCarNumber, 1),
    IntMember(K_minTrigger_raw, -7), IntMember(K_maxTrigger_raw, 1500),
    IntMember(K_viewMode, 1), IntMember(K_screensaverTimeout, 60),
    IntMember(K_soundMode, 1), IntMember(K_gridCarSelectEnabled, 1),
    IntMember(K_raceViewMode, 2), IntMember(K_language, 1),
    IntMember(K_textCase, 1), IntMember(K_listFontSize, 1),
    IntMember(K_startupDelay, 5),
    StrMember(K_screensaverLine1, <<"M", "A", "X">>),
    StrMember(K_screensaverLine2, <<"T", "e", "a", "m">>)>>

Body(top, arr, cars) == [top |-> top, arr |-> arr, cars |-> cars, rec |-> <<>>]

GoodBody == Body(GoodTop, "array", GoodCars)

\* The N valid profiles and no device-wide member
CarsOnlyBody == Body(<<>>, "array", GoodCars)

WithCar(d, i, members) == [d EXCEPT !.cars[i + 1] = members]

\* The text GET /backup returned for record r, kept by the client
BackupBody(r) == [top |-> <<>>, arr |-> "backup", cars |-> <<>>, rec |-> r]

NoPads == [i \in CarIdx |-> NUL]

\* Padding bytes the build can leave after carName: NUL or some character
PadChoices == [CarIdx -> {NUL, "?"}]

\* A body given as its text
TextBody(text) == [top |-> <<>>, arr |-> "text", cars |-> <<>>, rec |-> text]

BodyText(d) ==
  IF d.arr = "backup" THEN buildJsonBackup(d.rec, NoPads)
  ELSE IF d.arr = "empty" THEN <<>>
  ELSE IF d.arr = "text" THEN d.rec
  ELSE ClientJson(d)

\* The closed ranges the data model declares for the profile fields
DeclaredCarRanges ==
  <<[k |-> K_minSpeed, lo |-> 0, hi |-> 90],
    [k |-> K_brake, lo |-> 0, hi |-> 100],
    [k |-> K_dragBrake, lo |-> 0, hi |-> 100],
    [k |-> K_maxSpeed, lo |-> 5, hi |-> 100],
    [k |-> K_curveInput, lo |-> 0, hi |-> THROTTLE_NORMALIZED],
    [k |-> K_curveDiff, lo |-> 10, hi |-> 90],
    [k |-> K_antiSpin, lo |-> 0, hi |-> 255],
    [k |-> K_freqPWM, lo |-> 10, hi |-> 50],
    [k |-> K_brakeButton, lo |-> 0, hi |-> 100]>>

\* ... and for the range-constrained device-wide scalars
DeclaredTopRanges ==
  <<[k |-> K_selectedCarNumber, lo |-> 0, hi |-> CAR_MAX_COUNT - 1],
    [k |-> K_viewMode, lo |-> 0, hi |-> 1],
    [k |-> K_screensaverTimeout, lo |-> 0, hi |-> SCREENSAVER_TIMEOUT_MAX],
    [k |-> K_soundMode, lo |-> SOUND_MODE_OFF, hi |-> SOUND_MODE_ALL],
    [k |-> K_gridCarSelectEnabled, lo |-> 0, hi |-> 1],
    [k |-> K_raceViewMode, lo |-> 0, hi |-> 2],
    [k |-> K_language, lo |-> LANG_NOR, hi |-> LANG_ACD],
    [k |-> K_textCase, lo |-> TEXT_CASE_UPPER, hi |-> TEXT_CASE_PASCAL],
    [k |-> K_listFontSize, lo |-> FONT_SIZE_LARGE, hi |-> FONT_SIZE_SMALL],
    [k |-> K_startupDelay, lo |-> STARTUP_DELAY_MIN, hi |-> STARTUP_DELAY_MAX]>>

CarKeys ==
  {K_name} \cup {DeclaredCarRanges[j].k : j \in 1..Len(DeclaredCarRanges)}

BoundaryValues(R) == {R.lo - 1, R.lo, R.hi, R.hi + 1}

\* GoodBody with one numeric field of one profile set to a boundary value
CarValueBodies ==
  {WithCar(GoodBody, i, WithMember(GoodCarMembers(i), DeclaredCarRanges[j].k, v)) :
     <<i, j, v>> \in {t \in CarIdx \X (1..Len(DeclaredCarRanges)) \X (-1..257) :
                        t[3] \in BoundaryValues(DeclaredCarRanges[t[2]])}}

\* GoodBody with one required member of one profile left out
CarMissingBodies ==
  {WithCar(GoodBody, i, WithoutMember(GoodCarMembers(i), k)) :
     <<i, k>> \in CarIdx \X CarKeys}

\* GoodBody with one device-wide scalar set to a boundary value
TopValueBodies ==
  {Body(WithMember(GoodTop, DeclaredTopRanges[j].k, v), "array", GoodCars) :
     <<j, v>> \in {t \in (1..Len(DeclaredTopRanges)) \X (-1..121) :
                     t[2] \in BoundaryValues(DeclaredTopRanges[t[1]])}}

\* Bodies in which a string value spells a key name: a profile named after
\* one of its own numeric fields (that member left out, or out of range), a
\* profile named after a device-wide key, and a screensaver line that spells
\* a device-wide key and precedes it.
NamedAfterMissingField(i, key) ==
  WithCar(GoodBody, i, WithName(WithoutMember(GoodCarMembers(i), key), key))

NamedAfterField(i, key, v) ==
  WithCar(GoodBody, i, WithName(WithMember(GoodCarMembers(i), key, v), key))

NamedAfterTopKey(i, key) ==
  WithCar(CarsOnlyBody, i, WithName(GoodCarMembers(i), key))

LineSpellsKey(key, v) ==
  Body(<<StrMember(K_screensaverLine1, key), IntMember(K_soundMode, 1),
         IntMember(key, v)>>, "array", GoodCars)

\* A screensaver line that spells a device-wide key and is followed by the
\* version member, the key itself coming after it
LineBeforeVersion(key, v) ==
  Body(<<StrMember(K_screensaverLine1, key),
         IntMember(K_version, STORED_VAR_VERSION), IntMember(key, v)>>,
       "array", GoodCars)

KeyInStringBodies ==
  {NamedAfterMissingField(i, K_minSpeed) : i \in CarIdx}
  \cup {NamedAfterField(i, K_maxSpeed, 101) : i \in CarIdx}
  \cup {NamedAfterTopKey(i, K_screensaverTimeout) : i \in CarIdx}
  \cup {LineSpellsKey(K_viewMode, 7), LineBeforeVersion(K_viewMode, 0)}

\* Bodies with several invalid profile fields: in two different slots, twice
\* in one slot, a missing name before an invalid number, and a profile
\* named after its missing first numeric field with a later field invalid
FirstErrorBodies ==
  {WithCar(WithCar(GoodBody, 0, WithMember(GoodCarMembers(0), K_maxSpeed, 101)),
           CAR_MAX_COUNT - 1,
           WithoutMember(GoodCarMembers(CAR_MAX_COUNT - 1), K_brake))}
  \cup {WithCar(GoodBody, i,
                WithoutMember(WithMember(GoodCarMembers(i), K_brake, 101), K_freqPWM)) :
          i \in CarIdx}
  \cup {WithCar(GoodBody, i,
                WithoutMember(WithMember(GoodCarMembers(i), K_minSpeed, 91), K_name)) :
          i \in CarIdx}
  \cup {WithCar(NamedAfterMissingField(i, K_minSpeed), i,
                WithMember(NamedAfterMissingField(i, K_minSpeed).cars[i + 1],
                           K_maxSpeed, 101)) :
          i \in CarIdx}

\* GoodBody with one profile given a name of 4, 5, 6 or 16 characters
LongNameBodies ==
  {WithCar(GoodBody, i, WithName(GoodCarMembers(i), nm)) :
     <<i, nm>> \in CarIdx \X {SubSeq(K_screensaverLine1, 1, n) : n \in {4, 5, 6, 16}}}

\* Bodies with content the validator does not ask for: a carNumber member
\* in one profile (naming another slot), and a profile block after the
\* CAR_MAX_COUNT-th (valid, or with an invalid field)
ExtraContentBodies ==
  {WithCar(GoodBody, i, Append(GoodCarMembers(i), IntMember(K_carNumber, i + 1))) :
     i \in CarIdx}
  \cup {[GoodBody EXCEPT !.cars = Append(GoodCars, extra)] :
          extra \in {GoodCarMembers(CAR_MAX_COUNT),
                     WithMember(GoodCarMembers(CAR_MAX_COUNT), K_maxSpeed, 101)}}

\* Value texts that are no well-formed integer: a lone sign, digits with an
\* embedded sign, a doubled sign, a letter, nothing, a plus sign
MalformedTokens ==
  {<<"-">>, <<"1", "-", "2">>, <<"-", "-", "5">>, <<"x">>, <<>>, <<"+", "5">>}

\* GoodBody with the brake of one profile, or the device-wide viewMode,
\* given a malformed value
MalformedNumberBodies ==
  {WithCar(GoodBody, i, WithRaw(GoodCarMembers(i), K_brake, tok)) :
     <<i, tok>> \in CarIdx \X MalformedTokens}
  \cup {Body(WithRaw(GoodTop, K_viewMode, tok), "array", GoodCars) :
          tok \in MalformedTokens}

\* Every proper prefix of the text of the N valid profiles: bodies cut off
\* inside a key, a string, a number, an object or the array
TruncatedBodies ==
  {TextBody(SubSeq(ClientJson(CarsOnlyBody), 1, n)) :
     n \in 1..(Len(ClientJson(CarsOnlyBody)) - 1)}

\* Texts with unbalanced braces or quotes, an empty object, a cars marker
\* with no "["
UnbalancedBodies ==
  {TextBody(t) :
     t \in {<<"{", "}">>, <<"}", "{">>, <<"\"">>,
            <<"{">> \o Quoted(K_cars) \o <<"}">>,
            <<"{">> \o Quoted(K_cars) \o <<":", "[", "}", "{", "]">>,
            <<"{">> \o Quoted(K_cars) \o <<":", "[", "{", "{", "{", "]">>,
            <<"{">> \o Quoted(K_cars) \o <<":", "[", "}", "}", "}", "]", "}">>,
            <<"{">> \o Quoted(K_cars) \o <<":", "[", "{", "\"", "}", "{", "}", "{", "}", "]", "}">>}}

\* Trigger calibration values around the limits of int16_t and of int32_t,
\* and well-formed numbers that no int32_t holds
TriggerValues ==
  {-2147483647, -65536, -32769, -32768, -1, 0, 32767, 32768, 65535, 65536,
   100000, 2147483647}

TriggerTokens ==
  {<<"2", "1", "4", "7", "4", "8", "3", "6", "4", "8">>,
   <<"4", "2", "9", "4", "9", "6", "7", "2", "9", "7">>,
   <<"-", "2", "1", "4", "7", "4", "8", "3", "6", "4", "9">>}

\* GoodBody with one of the two trigger calibration members set to such a
\* value
TriggerBodies ==
  {Body(WithMember(GoodTop, key, v), "array", GoodCars) :
     <<key, v>> \in {K_minTrigger_raw, K_maxTrigger_raw} \X TriggerValues}
  \cup {Body(WithRaw(GoodTop, key, tok), "array", GoodCars) :
          <<key, tok>> \in {K_minTrigger_raw, K_maxTrigger_raw} \X TriggerTokens}

\* Bodies with a damaged profile array
NoCarsBody == Body(GoodTop, "none", <<>>)

NoArrayBody == Body(GoodTop, "number", <<>>)

FewCarsBody == Body(GoodTop, "array", SubSeq(GoodCars, 1, CAR_MAX_COUNT - 1))

\* Bodies whose array holds fewer than N profiles, none included
FewerCarsBodies ==
  {Body(GoodTop, "array", SubSeq(GoodCars, 1, n)) : n \in 0..(CAR_MAX_COUNT - 1)}

EmptyBody == [top |-> <<>>, arr |-> "empty", cars |-> <<>>, rec |-> <<>>]

(***************************************************************************)
(* State                                                                   *)
(***************************************************************************)
VARIABLES
  pc,               \* position of the device: "Menu" (showWiFiBackupScreen
                    \* not running), "Poll" (top of the service loop),
                    \* "Upload" (inside handleClient, a request is being
                    \* read and handled), "Check" (handleClient returned),
                    \* "Stopping" (loop left), "Restarted" (ESP.restart())
  apUp,             \* the access point is up
  serverUp,         \* g_wifiServer is allocated and its routes are bound
  g_storedVar,      \* the settings record in memory
  eeprom,           \* the persisted settings record
  saveCalls,        \* number of saveEEPROM calls
  g_uploadBuffer,   \* text accumulated by handleRestoreUpload
  g_otaTotal,
  g_otaWritten,
  g_otaInProgress,
  update,           \* the flash-update primitive (Update): running, error
  req,              \* the request handleClient is reading: route, whether
                    \* it carries a file part (upload), phase, the chunks
                    \* still to deliver, how the upload ends, whether its
                    \* start event opened the flash-update primitive
  resp,             \* the response sent to the last request
  clientFile,       \* the backup file the client downloaded last
  upDesc,           \* what the client posted to /restore (its description)
  preVar,           \* g_storedVar when the current request arrived
  otaState,         \* OtaSession.state of the design
  otaLog,           \* the chunks of the current /ota upload: what each offered
                    \* and what the primitive returned, since beginUpload
  exitRequested,    \* ExitRequested() at the last exit check
  steps             \* what the handlers of the current request have done so
                    \* far, in order: "finalize", "validate", "replace",
                    \* "commit", "respond", "delay", "restart"

vars ==
  <<pc, apUp, serverUp, g_storedVar, eeprom, saveCalls, g_uploadBuffer,
    g_otaTotal, g_otaWritten, g_otaInProgress, update, req, resp, clientFile,
    upDesc, preVar, otaState, otaLog, exitRequested, steps>>

NoReq ==
  [route |-> "none", upload |-> FALSE, phase |-> "none", chunks |-> <<>>,
   ending |-> "end", opened |-> FALSE]

Response(route, status, text, car, data) ==
  [route |-> route, status |-> status, text |-> text, car |-> car, data |-> data]

NoResp == Response("none", 0, "", NoIndex, <<>>)

NoFile == [present |-> FALSE, text |-> <<>>, rec |-> <<>>]

NoDesc == [top |-> <<>>, arr |-> "nothing", cars |-> <<>>, rec |-> <<>>]

UpdateIdle == [running |-> FALSE, error |-> FALSE]

\* Static initialisers (lines 13-15, 323-325) and a persisted record
InitStatics ==
  /\ g_uploadBuffer = <<>>
  /\ g_otaTotal = 0
  /\ g_otaWritten = 0
  /\ g_otaInProgress = FALSE
  /\ update = UpdateIdle
  /\ saveCalls = 0
  /\ resp = NoResp
  /\ clientFile = NoFile
  /\ otaState = "Idle"
  /\ otaLog = <<>>
  /\ exitRequested = FALSE
  /\ steps = <<>>

Init ==
  /\ pc = "Menu"
  /\ apUp = FALSE
  /\ serverUp = FALSE
  /\ g_storedVar \in SessionRecords
  /\ eeprom = g_storedVar
  /\ req = NoReq
  /\ upDesc = NoDesc
  /\ preVar = g_storedVar
  /\ InitStatics

(***************************************************************************)
(* The flash-update primitive (Update), as the handlers use it             *)
(***************************************************************************)
\* Update.begin(UPDATE_SIZE_UNKNOWN).  how: "ok", "noPartition" (fails and
\* records an error), "noMemory" (fails without recording one).  A begin
\* while an update is running fails and changes nothing.
Update_begin(u, how) ==
  IF u.running THEN [ret |-> FALSE, u |-> u]
  ELSE IF how = "ok"
    THEN [ret |-> TRUE, u |-> [running |-> TRUE, error |-> FALSE]]
  ELSE IF how = "noPartition"
    THEN [ret |-> FALSE, u |-> [running |-> FALSE, error |-> TRUE]]
  ELSE [ret |-> FALSE, u |-> [running |-> FALSE, error |-> FALSE]]

\* Update.write(buf, len): taken <= len bytes are accepted; fewer than len
\* means the flash write failed, which aborts the update with an error.
Update_write(u, len, taken) ==
  IF u.error \/ ~u.running THEN [ret |-> 0, u |-> u]
  ELSE IF taken = len
    THEN [ret |-> len, u |-> u]
  ELSE [ret |-> taken, u |-> [running |-> FALSE, error |-> TRUE]]

\* Update.end(true): verifies the image; a failed verification aborts with
\* an error.  Without a running update it fails and changes nothing.
Update_end(u, verified) ==
  IF u.error \/ ~u.running THEN [ret |-> FALSE, u |-> u]
  ELSE IF verified
    THEN [ret |-> TRUE, u |-> [u EXCEPT !.running = FALSE]]
  ELSE [ret |-> FALSE, u |-> [u EXCEPT !.running = FALSE, !.error = TRUE]]

Update_hasError(u) == u.error

(***************************************************************************)
(* Session Controller: showWiFiBackupScreen                                *)
(***************************************************************************)
\* Lines 437-472: access point up, server allocated, routes bound
StartSession ==
  /\ pc = "Menu"
  /\ pc' = "Poll"
  /\ apUp' = TRUE
  /\ serverUp' = TRUE
  /\ UNCHANGED <<g_storedVar, eeprom, saveCalls, g_uploadBuffer, g_otaTotal,
                 g_otaWritten, g_otaInProgress, update, req, resp, clientFile,
                 upDesc, preVar, otaState, otaLog, steps, exitRequested>>

\* g_wifiServer->handleClient() with no request pending
PollNothing ==
  /\ pc = "Poll"
  /\ pc' = "Check"
  /\ exitRequested' = FALSE
  /\ UNCHANGED <<apUp, serverUp, g_storedVar, eeprom, saveCalls, g_uploadBuffer,
                 g_otaTotal, g_otaWritten, g_otaInProgress, update, req, resp,
                 clientFile, upDesc, preVar, otaState, otaLog, steps>>

\* An exit test that does not look at the OTA flag
ExitIgnoringOta(otaInProgress, clicked, pressed) == clicked \/ pressed

\* An exit test that reads the encoder only
ExitOnClickOnly(otaInProgress, clicked, pressed) == ~otaInProgress /\ clicked

\* Lines 478-488: the loop is left iff no OTA is marked in progress and the
\* encoder was clicked or the button is pressed
ExitTaken(otaInProgress, clicked, pressed) ==
  ~otaInProgress /\ (clicked \/ pressed)

ExitCheck ==
  /\ pc = "Check"
  /\ \E clicked \in BOOLEAN, pressed \in BOOLEAN :
       /\ exitRequested' = (clicked \/ pressed)
       /\ pc' = IF ExitTaken(g_otaInProgress, clicked, pressed)
                THEN "Stopping" ELSE "Poll"
  /\ resp' = NoResp
  /\ upDesc' = NoDesc
  /\ otaLog' = <<>>
  /\ steps' = <<>>
  /\ UNCHANGED <<apUp, serverUp, g_storedVar, eeprom, saveCalls, g_uploadBuffer,
                 g_otaTotal, g_otaWritten, g_otaInProgress, update, req,
                 clientFile, preVar, otaState>>

\* A cleanup that shuts the access point down but keeps the server
CleanupKeepsServer ==
  /\ pc = "Stopping"
  /\ pc' = "Menu"
  /\ apUp' = FALSE
  /\ exitRequested' = FALSE
  /\ UNCHANGED <<serverUp, g_storedVar, eeprom, saveCalls, g_uploadBuffer,
                 g_otaTotal, g_otaWritten, g_otaInProgress, update, req, resp,
                 clientFile, upDesc, preVar, otaState, otaLog, steps>>

\* Lines 493-500: server stopped and released, access point shut down
Cleanup ==
  /\ pc = "Stopping"
  /\ pc' = "Menu"
  /\ apUp' = FALSE
  /\ serverUp' = FALSE
  /\ exitRequested' = FALSE
  /\ UNCHANGED <<g_storedVar, eeprom, saveCalls, g_uploadBuffer, g_otaTotal,
                 g_otaWritten, g_otaInProgress, update, req, resp, clientFile,
                 upDesc, preVar, otaState, otaLog, steps>>

(***************************************************************************)
(* Session Transport: GET / and GET /backup                                *)
(***************************************************************************)
HandleRoot ==
  /\ pc = "Poll"
  /\ resp' = Response("root", 200, "", NoIndex, <<>>)
  /\ pc' = "Check"
  /\ exitRequested' = FALSE
  /\ UNCHANGED <<apUp, serverUp, g_storedVar, eeprom, saveCalls, g_uploadBuffer,
                 g_otaTotal, g_otaWritten, g_otaInProgress, update, req,
                 clientFile, upDesc, preVar, otaState, otaLog, steps>>

\* handleBackup: the response is buildJsonBackup(); the client keeps it
HandleBackup ==
  /\ pc = "Poll"
  /\ \E pads \in PadChoices :
       LET json == buildJsonBackup(g_storedVar, pads)
       IN  /\ resp' = Response("backup", 200, "", NoIndex, json)
           /\ clientFile' = [present |-> TRUE, text |-> json, rec |-> g_storedVar]
  /\ pc' = "Check"
  /\ exitRequested' = FALSE
  /\ UNCHANGED <<apUp, serverUp, g_storedVar, eeprom, saveCalls, g_uploadBuffer,
                 g_otaTotal, g_otaWritten, g_otaInProgress, update, req,
                 upDesc, preVar, otaState, otaLog, steps>>

(***************************************************************************)
(* Session Transport: POST /restore                                        *)
(***************************************************************************)
\* How the transport cuts a body into UPLOAD_FILE_WRITE events
Chunks(text, split) ==
  IF text = <<>> THEN <<>>
  ELSE IF split = "whole" \/ Len(text) < 2 THEN <<text>>
  ELSE <<SubSeq(text, 1, Len(text) \div 2),
         SubSeq(text, (Len(text) \div 2) + 1, Len(text))>>

\* Bodies posted during a session (besides the downloaded backup file)
SessionBodies ==
  {GoodBody, CarsOnlyBody, EmptyBody, NoCarsBody, NoArrayBody, FewCarsBody,
   WithCar(GoodBody, CAR_MAX_COUNT - 1,
           WithoutMember(GoodCarMembers(CAR_MAX_COUNT - 1), K_maxSpeed)),
   WithCar(GoodBody, CAR_MAX_COUNT - 1,
           WithMember(GoodCarMembers(CAR_MAX_COUNT - 1), K_maxSpeed, 101)),
   Body(WithMember(GoodTop, K_selectedCarNumber, CAR_MAX_COUNT + 5),
        "array", GoodCars),
   NamedAfterTopKey(0, K_screensaverTimeout),
   BackupBody(UpperRecord)}

\* The POST /restore requests of the model: every session body in one
\* piece, and the valid body also in two pieces and with an upload the
\* client abandons
RestorePosts ==
  {[desc |-> d, split |-> "whole", ending |-> "end"] : d \in SessionBodies}
  \cup {[desc |-> GoodBody, split |-> "halves", ending |-> "end"],
        [desc |-> GoodBody, split |-> "halves", ending |-> "abort"]}

\* handleClient() accepts a POST /restore with a file part
BeginRestore ==
  /\ pc = "Poll"
  /\ \E p \in RestorePosts
            \cup (IF clientFile.present
                  THEN {[desc |-> BackupBody(clientFile.rec), split |-> "whole",
                         ending |-> "end"]}
                  ELSE {}) :
       /\ upDesc' = p.desc
       /\ req' = [route |-> "restore", upload |-> TRUE, phase |-> "start",
                  chunks |-> Chunks(IF p.desc.arr = "backup"
                                       /\ clientFile.present
                                       /\ p.desc.rec = clientFile.rec
                                    THEN clientFile.text
                                    ELSE BodyText(p.desc), p.split),
                  ending |-> p.ending, opened |-> FALSE]
  /\ pc' = "Upload"
  /\ resp' = NoResp
  /\ preVar' = g_storedVar
  /\ exitRequested' = FALSE
  /\ UNCHANGED <<apUp, serverUp, g_storedVar, eeprom, saveCalls, g_uploadBuffer,
                 g_otaTotal, g_otaWritten, g_otaInProgress, update, clientFile,
                 otaState, otaLog, steps>>

\* handleClient() accepts a POST /restore without a file part: no upload
\* event is delivered, only the completion handler runs
BeginRestoreNoFile ==
  /\ pc = "Poll"
  /\ upDesc' = NoDesc
  /\ req' = [route |-> "restore", upload |-> FALSE, phase |-> "complete",
             chunks |-> <<>>, ending |-> "end",
             opened |-> FALSE]
  /\ pc' = "Upload"
  /\ resp' = NoResp
  /\ preVar' = g_storedVar
  /\ exitRequested' = FALSE
  /\ UNCHANGED <<apUp, serverUp, g_storedVar, eeprom, saveCalls, g_uploadBuffer,
                 g_otaTotal, g_otaWritten, g_otaInProgress, update, clientFile,
                 otaState, otaLog, steps>>

\* handleRestoreUpload, upload.status == UPLOAD_FILE_START
RestoreUploadStart ==
  /\ pc = "Upload" /\ req.route = "restore" /\ req.phase = "start"
  /\ g_uploadBuffer' = <<>>
  /\ req' = [req EXCEPT !.phase = "write"]
  /\ UNCHANGED <<pc, apUp, serverUp, g_storedVar, eeprom, saveCalls, g_otaTotal,
                 g_otaWritten, g_otaInProgress, update, resp, clientFile, upDesc,
                 preVar, otaState, otaLog, steps, exitRequested>>

\* handleRestoreUpload, upload.status == UPLOAD_FILE_WRITE
RestoreUploadWrite ==
  /\ pc = "Upload" /\ req.route = "restore" /\ req.phase = "write"
  /\ req.chunks # <<>>
  /\ g_uploadBuffer' = g_uploadBuffer \o Head(req.chunks)
  /\ req' = [req EXCEPT !.chunks = Tail(@)]
  /\ UNCHANGED <<pc, apUp, serverUp, g_storedVar, eeprom, saveCalls, g_otaTotal,
                 g_otaWritten, g_otaInProgress, update, resp, clientFile, upDesc,
                 preVar, otaState, otaLog, steps, exitRequested>>

\* handleRestoreUpload, upload.status == UPLOAD_FILE_END: nothing to do; the
\* completion handler follows
RestoreUploadEnd ==
  /\ pc = "Upload" /\ req.route = "restore" /\ req.phase = "write"
  /\ req.chunks = <<>> /\ req.ending = "end"
  /\ req' = [req EXCEPT !.phase = "complete"]
  /\ UNCHANGED <<pc, apUp, serverUp, g_storedVar, eeprom, saveCalls,
                 g_uploadBuffer, g_otaTotal, g_otaWritten, g_otaInProgress,
                 update, resp, clientFile, upDesc, preVar, otaState, otaLog, steps,
                 exitRequested>>

\* handleRestoreUpload, upload.status == UPLOAD_FILE_ABORTED (the client went
\* away): nothing to do; no completion handler follows
RestoreUploadAborted ==
  /\ pc = "Upload" /\ req.route = "restore" /\ req.phase = "write"
  /\ req.chunks = <<>> /\ req.ending = "abort"
  /\ req' = NoReq
  /\ pc' = "Check"
  /\ UNCHANGED <<apUp, serverUp, g_storedVar, eeprom, saveCalls, g_uploadBuffer,
                 g_otaTotal, g_otaWritten, g_otaInProgress, update, resp,
                 clientFile, upDesc, preVar, otaState, otaLog, steps, exitRequested>>

\* What handleRestore decides: sv is g_storedVar afterwards, save tells
\* whether saveEEPROM and ESP.restart() are called, status and msg are the
\* response.
RestoreDecision(save, sv, status, msg) ==
  [save |-> save, sv |-> sv, status |-> status, msg |-> msg]

RestoredOk == ErrorMsg("OK - Settings restored! Restarting...", NoIndex)

\* A handler that validates into g_storedVar itself instead of tempVar
RestoreInPlace(r, cur) ==
  RestoreDecision(r.ok, r.sv, IF r.ok THEN 200 ELSE 400,
                  IF r.ok THEN RestoredOk ELSE r.errorMsg)

\* A handler that saves and restarts whatever the validator returned
RestoreSavesRejected(r, cur) ==
  RestoreDecision(TRUE, IF r.ok THEN r.sv ELSE cur, IF r.ok THEN 200 ELSE 400,
                  IF r.ok THEN RestoredOk ELSE r.errorMsg)

\* Lines 359-372, with r the result of parseAndValidateJson on tempVar and
\* cur the value of g_storedVar
RestoreOutcome(r, cur) ==
  IF r.ok THEN RestoreDecision(TRUE, r.sv, 200, RestoredOk)
  ELSE RestoreDecision(FALSE, cur, 400, r.errorMsg)

\* The effects of the decision o
RestoreEffect(o) ==
  /\ g_storedVar' = o.sv
  /\ eeprom' = IF o.save THEN o.sv ELSE eeprom
  /\ saveCalls' = IF o.save THEN saveCalls + 1 ELSE saveCalls
  /\ resp' = Response("restore", o.status, o.msg.text, o.msg.car, <<>>)
  /\ pc' = IF o.save THEN "Restarted" ELSE "Check"

\* A handler that answers before it saves
RestoreStepsAnswerFirst(ok) ==
  IF ok THEN <<"validate", "replace", "respond", "commit", "delay", "restart">>
  ELSE <<"validate", "respond">>

\* Lines 362-372: what handleRestore does after the empty-buffer test, in
\* order, with ok telling whether the accepting branch is taken
RestoreSteps(ok) ==
  IF ok THEN <<"validate", "replace", "commit", "respond", "delay", "restart">>
  ELSE <<"validate", "respond">>

\* A handler that never takes the "no file uploaded" exit
NoUploadNever(buffer) == FALSE

\* Line 354: g_uploadBuffer.length() == 0
NoUpload(buffer) == Len(buffer) = 0

\* handleRestore, lines 353-373
HandleRestore ==
  /\ pc = "Upload" /\ req.route = "restore" /\ req.phase = "complete"
  /\ IF NoUpload(g_uploadBuffer)
     THEN RestoreEffect(RestoreDecision(
            FALSE, g_storedVar, 400, ErrorMsg("Error: no file uploaded", NoIndex)))
     ELSE RestoreEffect(RestoreOutcome(
            parseAndValidateJson(g_uploadBuffer, g_storedVar), g_storedVar))
  /\ steps' = IF NoUpload(g_uploadBuffer) THEN <<"respond">>
              ELSE RestoreSteps(pc' = "Restarted")
  /\ g_uploadBuffer' = <<>>
  /\ req' = NoReq
  /\ UNCHANGED <<apUp, serverUp, g_otaTotal, g_otaWritten, g_otaInProgress,
                 update, clientFile, upDesc, preVar, otaState, otaLog,
                 exitRequested>>

(***************************************************************************)
(* Firmware Writer: POST /ota                                              *)
(***************************************************************************)
MaxOtaChunks == 2

\* upload.currentSize of a chunk (in units of a transport buffer)
ChunkSizes == {1, 2}

ChunkSeqs ==
  UNION {[1..n -> ChunkSizes] : n \in 0..MaxOtaChunks}

RECURSIVE AcceptedSum(_)
\* Sum of the sizes of the logged chunks the primitive accepted in full
AcceptedSum(log) ==
  IF log = <<>> THEN 0
  ELSE (IF Head(log).ret = Head(log).size THEN Head(log).size ELSE 0)
       + AcceptedSum(Tail(log))

\* handleClient() accepts a POST /ota with a file part
BeginOta ==
  /\ pc = "Poll"
  /\ \E sizes \in ChunkSeqs, ending \in {"end", "abort"} :
       req' = [route |-> "ota", upload |-> TRUE, phase |-> "start",
               chunks |-> sizes, ending |-> ending, opened |-> FALSE]
  /\ pc' = "Upload"
  /\ resp' = NoResp
  /\ upDesc' = NoDesc
  /\ preVar' = g_storedVar
  /\ exitRequested' = FALSE
  /\ UNCHANGED <<apUp, serverUp, g_storedVar, eeprom, saveCalls, g_uploadBuffer,
                 g_otaTotal, g_otaWritten, g_otaInProgress, update, clientFile,
                 otaState, otaLog, steps>>

\* handleClient() accepts a POST /ota without a file part: only the
\* completion handler runs
BeginOtaNoFile ==
  /\ pc = "Poll"
  /\ req' = [route |-> "ota", upload |-> FALSE, phase |-> "complete",
             chunks |-> <<>>, ending |-> "end",
             opened |-> FALSE]
  /\ pc' = "Upload"
  /\ resp' = NoResp
  /\ upDesc' = NoDesc
  /\ preVar' = g_storedVar
  /\ exitRequested' = FALSE
  /\ UNCHANGED <<apUp, serverUp, g_storedVar, eeprom, saveCalls, g_uploadBuffer,
                 g_otaTotal, g_otaWritten, g_otaInProgress, update, clientFile,
                 otaState, otaLog, steps>>

\* A start event that leaves the flag set when Update.begin failed
OtaInProgressKept(began) == TRUE

\* Lines 385 and 394-396: g_otaInProgress after the start event, began being
\* what Update.begin returned
OtaInProgressAfterBegin(began) == began

\* handleOtaUpload, UPLOAD_FILE_START (lines 383-396).  upload.totalSize is
\* 0 when the transport delivers the start event.
OtaUploadStart ==
  /\ pc = "Upload" /\ req.route = "ota" /\ req.phase = "start"
  /\ \E how \in {"ok", "noPartition", "noMemory"} :
       LET b == Update_begin(update, how)
       IN  /\ update' = b.u
           /\ g_otaInProgress' = OtaInProgressAfterBegin(b.ret)
           /\ otaState' = IF b.ret THEN "Writing" ELSE "Aborted"
           /\ req' = [req EXCEPT !.phase = "write", !.opened = b.ret]
  /\ g_otaTotal' = 0
  /\ g_otaWritten' = 0
  /\ otaLog' = <<>>
  /\ steps' = <<>>
  /\ UNCHANGED <<pc, apUp, serverUp, g_storedVar, eeprom, saveCalls,
                 g_uploadBuffer, resp, clientFile, upDesc, preVar,
                 exitRequested>>

\* A counter that adds what the primitive returned, also for a short write
OtaWrittenAddsReturned(written, ret, currentSize) == written + ret

\* Line 399-400: the counter after Update.write returned ret for a chunk of
\* currentSize bytes
OtaWritten(written, ret, currentSize) ==
  IF ret = currentSize THEN written + currentSize ELSE written

\* handleOtaUpload, UPLOAD_FILE_WRITE (lines 398-404)
OtaUploadWrite ==
  /\ pc = "Upload" /\ req.route = "ota" /\ req.phase = "write"
  /\ req.chunks # <<>>
  /\ LET currentSize == Head(req.chunks)
     IN  \E taken \in 0..currentSize :
           LET w == Update_write(update, currentSize, taken)
           IN  /\ update' = w.u
               /\ g_otaWritten' = OtaWritten(g_otaWritten, w.ret, currentSize)
               /\ otaLog' = Append(otaLog, [size |-> currentSize, ret |-> w.ret])
  /\ req' = [req EXCEPT !.chunks = Tail(@)]
  /\ UNCHANGED <<pc, apUp, serverUp, g_storedVar, eeprom, saveCalls,
                 g_uploadBuffer, g_otaTotal, g_otaInProgress, resp, clientFile,
                 upDesc, preVar, otaState, exitRequested, steps>>

\* handleOtaUpload, UPLOAD_FILE_END (lines 406-415); the completion handler
\* follows
OtaUploadEnd ==
  /\ pc = "Upload" /\ req.route = "ota" /\ req.phase = "write"
  /\ req.chunks = <<>> /\ req.ending = "end"
  /\ \E verified \in BOOLEAN :
       LET e == Update_end(update, verified)
       IN  /\ update' = e.u
           /\ otaState' = IF otaState # "Writing" THEN otaState
                          ELSE IF e.ret THEN "Committed" ELSE "Aborted"
  /\ g_otaInProgress' = FALSE
  /\ steps' = Append(steps, "finalize")
  /\ req' = [req EXCEPT !.phase = "complete"]
  /\ UNCHANGED <<pc, apUp, serverUp, g_storedVar, eeprom, saveCalls,
                 g_uploadBuffer, g_otaTotal, g_otaWritten, resp, clientFile,
                 upDesc, preVar, otaLog, exitRequested>>

\* handleOtaUpload, UPLOAD_FILE_ABORTED: no branch of the handler matches;
\* no completion handler follows
OtaUploadAborted ==
  /\ pc = "Upload" /\ req.route = "ota" /\ req.phase = "write"
  /\ req.chunks = <<>> /\ req.ending = "abort"
  /\ req' = NoReq
  /\ pc' = "Check"
  /\ UNCHANGED <<apUp, serverUp, g_storedVar, eeprom, saveCalls, g_uploadBuffer,
                 g_otaTotal, g_otaWritten, g_otaInProgress, update, resp,
                 clientFile, upDesc, preVar, otaState, otaLog, steps, exitRequested>>

\* Lines 422-428: what handleOta does, in order, with failed the value of
\* Update.hasError()
OtaSteps(failed) ==
  IF failed THEN <<"respond">> ELSE <<"respond", "delay", "restart">>

\* handleOta (lines 421-429)
HandleOta ==
  /\ pc = "Upload" /\ req.route = "ota" /\ req.phase = "complete"
  /\ IF Update_hasError(update)
     THEN /\ resp' = Response("ota", 400, "Error: firmware update failed",
                              NoIndex, <<>>)
          /\ pc' = "Check"
     ELSE /\ resp' = Response("ota", 200, "OK - Firmware updated! Restarting...",
                              NoIndex, <<>>)
          /\ pc' = "Restarted"
  /\ steps' = steps \o OtaSteps(Update_hasError(update))
  /\ req' = NoReq
  /\ UNCHANGED <<apUp, serverUp, g_storedVar, eeprom, saveCalls, g_uploadBuffer,
                 g_otaTotal, g_otaWritten, g_otaInProgress, update, clientFile,
                 upDesc, preVar, otaState, otaLog, exitRequested>>

(***************************************************************************)
(* Specifications                                                          *)
(***************************************************************************)
Next ==
  \/ StartSession
  \/ PollNothing
  \/ ExitCheck
  \/ Cleanup
  \/ HandleRoot
  \/ HandleBackup
  \/ BeginRestore
  \/ BeginRestoreNoFile
  \/ RestoreUploadStart
  \/ RestoreUploadWrite
  \/ RestoreUploadEnd
  \/ RestoreUploadAborted
  \/ HandleRestore
  \/ BeginOta
  \/ BeginOtaNoFile
  \/ OtaUploadStart
  \/ OtaUploadWrite
  \/ OtaUploadEnd
  \/ OtaUploadAborted
  \/ HandleOta

Spec == Init /\ [][Next]_vars

(***************************************************************************)
(* Sessions in which the user keeps asking to leave: every exit test finds *)
(* the encoder clicked or the button pressed.  The loop of lines 475-491   *)
(* runs on (vTaskDelay(1) returns), the transport goes through the events  *)
(* of a request it has started, and a completion handler returns, so these *)
(* steps are taken as long as they are possible; the steps of the client   *)
(* (entering the screen, sending a request) are not forced.                *)
(***************************************************************************)
ExitCheckRequested == ExitCheck /\ exitRequested'

ClientStep ==
  \/ StartSession
  \/ HandleRoot
  \/ HandleBackup
  \/ BeginRestore
  \/ BeginRestoreNoFile
  \/ BeginOta
  \/ BeginOtaNoFile

LoopStep ==
  \/ PollNothing
  \/ ExitCheckRequested
  \/ Cleanup

UploadStep ==
  \/ RestoreUploadStart
  \/ RestoreUploadWrite
  \/ RestoreUploadEnd
  \/ RestoreUploadAborted
  \/ OtaUploadStart
  \/ OtaUploadWrite
  \/ OtaUploadEnd
  \/ OtaUploadAborted
  \/ HandleOta

NextExit == ClientStep \/ LoopStep \/ UploadStep \/ HandleRestore

\* handleRestore is the only step possible when it is due, so its fairness
\* is stated on the state: the device does not wait for it for ever
SpecExit ==
  /\ Init /\ [][NextExit]_vars
  /\ WF_vars(LoopStep \/ UploadStep)
  /\ []<>~(pc = "Upload" /\ req.route = "restore" /\ req.phase = "complete")

(***************************************************************************)
(* Codec specification: one /restore completion per behaviour, for every   *)
(* persisted record and every body of the families above                   *)
(***************************************************************************)
CodecBodies ==
  CarValueBodies \cup CarMissingBodies \cup TopValueBodies \cup KeyInStringBodies
  \cup FirstErrorBodies \cup LongNameBodies \cup ExtraContentBodies
  \cup MalformedNumberBodies \cup TruncatedBodies \cup UnbalancedBodies
  \cup FewerCarsBodies \cup TriggerBodies
  \cup {BackupBody(r) : r \in InitRecords}
  \cup {GoodBody, CarsOnlyBody, NoCarsBody, NoArrayBody, FewCarsBody, EmptyBody}

\* The upload events of the request have been delivered: the buffer holds
\* the body and the completion handler is about to run
InitCodec ==
  /\ pc = "Upload"
  /\ apUp = TRUE
  /\ serverUp = TRUE
  /\ g_storedVar \in InitRecords
  /\ eeprom = g_storedVar
  /\ preVar = g_storedVar
  /\ upDesc \in CodecBodies
  /\ g_uploadBuffer = BodyText(upDesc)
  /\ req = [route |-> "restore", upload |-> TRUE, phase |-> "complete",
            chunks |-> <<>>, ending |-> "end",
            opened |-> FALSE]
  /\ g_otaTotal = 0
  /\ g_otaWritten = 0
  /\ g_otaInProgress = FALSE
  /\ update = UpdateIdle
  /\ saveCalls = 0
  /\ resp = NoResp
  /\ clientFile = NoFile
  /\ otaState = "Idle"
  /\ otaLog = <<>>
  /\ exitRequested = FALSE
  /\ steps = <<>>

NextCodec == HandleRestore

SpecCodec == InitCodec /\ [][NextCodec]_vars

(***************************************************************************)
(* What a body asks for, read from its description                         *)
(***************************************************************************)
DescCarComplete(members) == \A k \in CarKeys : MemberOf(members, k).found

DescCarInRange(members) ==
  \A j \in 1..Len(DeclaredCarRanges) :
    LET R == DeclaredCarRanges[j]
        m == MemberOf(members, R.k)
    IN  m.found => m.n \in R.lo..R.hi

DescHasAllCars(d) == d.arr = "array" /\ Len(d.cars) = CAR_MAX_COUNT

DescCarsValid(d) ==
  /\ DescHasAllCars(d)
  /\ \A j \in 1..Len(d.cars) : DescCarComplete(d.cars[j]) /\ DescCarInRange(d.cars[j])

\* The value of the device-wide scalar key in record r
TopField(r, key) ==
  CASE key = K_selectedCarNumber -> r.selectedCarNumber
    [] key = K_viewMode -> r.viewMode
    [] key = K_screensaverTimeout -> r.screensaverTimeout
    [] key = K_soundMode -> r.soundMode
    [] key = K_gridCarSelectEnabled -> r.gridCarSelectEnabled
    [] key = K_raceViewMode -> r.raceViewMode
    [] key = K_language -> r.language
    [] key = K_textCase -> r.textCase
    [] key = K_listFontSize -> r.listFontSize
    [] key = K_startupDelay -> r.startupDelay

DeviceWide(r) == [r EXCEPT !.carParam = <<>>]

\* A name cut to the declared maximum length of a profile name
TruncatedName(name) ==
  IF Len(name) > CAR_NAME_MAX_SIZE - 1 THEN SubSeq(name, 1, CAR_NAME_MAX_SIZE - 1)
  ELSE name

\* Profile c holds what the profile object members asked for
ProfileAsUploaded(c, members) ==
  /\ TruncatedName(c.carName) = TruncatedName(MemberOf(members, K_name).s)
  /\ c.minSpeed = MemberOf(members, K_minSpeed).n
  /\ c.brake = MemberOf(members, K_brake).n
  /\ c.dragBrake = MemberOf(members, K_dragBrake).n
  /\ c.maxSpeed = MemberOf(members, K_maxSpeed).n
  /\ c.throttleCurveVertex.inputThrottle = MemberOf(members, K_curveInput).n
  /\ c.throttleCurveVertex.curveSpeedDiff = MemberOf(members, K_curveDiff).n
  /\ c.antiSpin = MemberOf(members, K_antiSpin).n
  /\ c.freqPWM = MemberOf(members, K_freqPWM).n
  /\ c.brakeButtonReduction = MemberOf(members, K_brakeButton).n

\* Records a and b agree in every field, profile names up to truncation
SameRecord(a, b) ==
  /\ DeviceWide(a) = DeviceWide(b)
  /\ DOMAIN a.carParam = DOMAIN b.carParam
  /\ \A i \in DOMAIN a.carParam :
       /\ [a.carParam[i] EXCEPT !.carName = <<>>] = [b.carParam[i] EXCEPT !.carName = <<>>]
       /\ TruncatedName(a.carParam[i].carName) = TruncatedName(b.carParam[i].carName)

\* The /restore completion handler has answered
RestoreAnswered == resp.route = "restore"

\* Nothing of the request reached the record or persistence
RecordUntouched == g_storedVar = preVar /\ eeprom = preVar /\ saveCalls = 0

\* The request is inside an /ota upload, after its start event
InOtaUpload ==
  /\ pc = "Upload" /\ req.route = "ota" /\ req.upload
  /\ req.phase \in {"write", "complete"}

(***************************************************************************)
(* Properties                                                              *)
(***************************************************************************)
\* C1 - Atomic commit: whenever a /restore request has been rejected
\* (answered 400), the record in memory and the persisted record are what
\* they were before the request, and saveEEPROM has not been called.
C1_AtomicCommit ==
  (RestoreAnswered /\ resp.status = 400) => RecordUntouched

\* A restore rejected at the last profile slot, after the device-wide
\* settings and the earlier slots of the candidate were already filled in
C1_Witness ==
  /\ RestoreAnswered /\ resp.status = 400
  /\ resp.text = "Error: invalid maxSpeed in car "
  /\ resp.car = CAR_MAX_COUNT - 1
  /\ RecordUntouched

\* C2 - Committed-record invariant: starting from a persisted record in
\* range, the record in memory and every committed (persisted) record have
\* every range-constrained field in range and exactly CAR_MAX_COUNT
\* profiles, whatever requests were served.
C2_CommittedInRange == RecordInRange(g_storedVar) /\ RecordInRange(eeprom)

\* A restore committed a record whose fields sit at the upper range ends
C2_Witness ==
  /\ saveCalls = 1
  /\ eeprom # preVar
  /\ eeprom.selectedCarNumber = CAR_MAX_COUNT - 1
  /\ \A i \in CarIdx : eeprom.carParam[i].maxSpeed = 100

\* C3 - OTA exit suppression: from a state in which the OTA session is
\* Writing or Finalizing, no step takes the controller to Stopping, also
\* when the exit control is actuated.
C3_OtaExitSuppression ==
  [][(otaState \in {"Writing", "Finalizing"} /\ pc # "Stopping")
       => pc' # "Stopping"]_vars

\* The exit check ran with the exit control actuated while the session was
\* Writing, and the loop went on to the next poll
C3_Witness ==
  otaState = "Writing" /\ exitRequested /\ pc = "Poll"

\* C4 - Strictness: a body with CAR_MAX_COUNT profile objects of which one
\* lacks a required member or has a numeric member out of range is
\* rejected and nothing of it reaches the record.
C4_Strictness ==
  (RestoreAnswered /\ DescHasAllCars(upDesc) /\ ~DescCarsValid(upDesc))
    => (resp.status = 400 /\ RecordUntouched)

\* C5 - Leniency: a body with no device-wide member and CAR_MAX_COUNT valid
\* profile objects is answered 200 and committed, every device-wide setting
\* keeps its pre-restore value and every profile is the uploaded one.
C5_Leniency ==
  (RestoreAnswered /\ upDesc.top = <<>> /\ DescCarsValid(upDesc))
    => /\ resp.status = 200
       /\ saveCalls = 1 /\ eeprom = g_storedVar
       /\ DeviceWide(g_storedVar) = DeviceWide(preVar)
       /\ \A i \in CarIdx :
            ProfileAsUploaded(g_storedVar.carParam[i], upDesc.cars[i + 1])

\* C6 - Device-wide fields never abort a restore: with CAR_MAX_COUNT valid
\* profile objects the restore succeeds, and every range-constrained
\* device-wide scalar that the body gives out of range keeps its persisted
\* value.
C6_DeviceWideNeverAborts ==
  (RestoreAnswered /\ DescCarsValid(upDesc))
    => /\ resp.status = 200
       /\ \A j \in 1..Len(DeclaredTopRanges) :
            LET R == DeclaredTopRanges[j]
                m == MemberOf(upDesc.top, R.k)
            IN  (m.found /\ m.n \notin R.lo..R.hi)
                  => TopField(g_storedVar, R.k) = TopField(preVar, R.k)

\* C7 - Inclusive range bounds: a body whose CAR_MAX_COUNT profile objects
\* have every required member is accepted if and only if every numeric
\* member lies in its closed range (maxSpeed in 5..100, minSpeed in 0..90,
\* and so on).
C7_RangeEnforcement ==
  (RestoreAnswered /\ DescHasAllCars(upDesc)
     /\ \A j \in 1..Len(upDesc.cars) : DescCarComplete(upDesc.cars[j]))
    => (resp.status = 200 <=> DescCarsValid(upDesc))

\* C8 - Round trip: restoring the text buildJsonBackup produces for a
\* record r, over any persisted record, is accepted and yields r in every
\* field (profile names up to truncation).
C8_RoundTrip ==
  (RestoreAnswered /\ upDesc.arr = "backup")
    => (resp.status = 200 /\ SameRecord(g_storedVar, upDesc.rec))

\* C9 - Idempotence: posting to /restore the text GET /backup returned for
\* the current record is accepted and leaves the record as it was.
C9_Idempotence ==
  (RestoreAnswered /\ upDesc.arr = "backup" /\ clientFile.present
     /\ upDesc.rec = clientFile.rec /\ clientFile.rec = preVar)
    => (resp.status = 200 /\ g_storedVar = preVar /\ eeprom = preVar)

\* C10 - OTA progress monotonicity: within one /ota upload g_otaWritten is
\* 0 after the start event, equals the sum of the sizes of the chunks
\* accepted so far after every chunk, and never decreases.
C10_OtaProgressMonotone ==
  [][/\ (req.route = "ota" /\ req.phase = "start" /\ req'.phase = "write")
          => g_otaWritten' = 0
     /\ InOtaUpload' => g_otaWritten' = AcceptedSum(otaLog')
     /\ (InOtaUpload /\ InOtaUpload') => g_otaWritten' >= g_otaWritten]_vars

\* Two chunks of different sizes have been accepted
C10_Witness ==
  /\ InOtaUpload
  /\ Len(otaLog) = 2
  /\ otaLog[1].ret = otaLog[1].size /\ otaLog[2].ret = otaLog[2].size
  /\ otaLog[1].size # otaLog[2].size
  /\ g_otaWritten = otaLog[1].size + otaLog[2].size

\* The /ota completion handler has answered
OtaAnswered == resp.route = "ota"

\* ESP.restart() has been called
RestartRequested == pc = "Restarted"

\* The /ota completion handler is about to run
AtOtaCompletion == pc = "Upload" /\ req.route = "ota" /\ req.phase = "complete"

\* C11 - Restart policy: the restart is requested if and only if a /restore
\* passed validation and was committed or the session of an /ota request
\* reached Committed; a rejected restore and an Aborted OTA session are
\* answered with a failure and do not restart.
C11_RestartPolicy ==
  /\ RestartRequested =>
       \/ RestoreAnswered /\ resp.status = 200 /\ saveCalls = 1
       \/ OtaAnswered /\ otaState = "Committed"
  /\ (RestoreAnswered /\ resp.status = 200) => RestartRequested
  /\ (OtaAnswered /\ otaState = "Committed") => RestartRequested
  /\ (RestoreAnswered /\ resp.status = 400) => ~RestartRequested
  /\ (OtaAnswered /\ otaState = "Aborted") => (resp.status = 400 /\ ~RestartRequested)

\* C12 - Finalize is the single commit point: the /ota completion handler
\* answers 200 and restarts only if this request opened a session that
\* reached Committed; every other POST /ota, one without upload events
\* included, is answered with a failure and does not restart.
C12_FinalizeSingleCommitPoint ==
  [][AtOtaCompletion =>
       /\ (resp'.status = 200 \/ pc' = "Restarted")
            => (req.upload /\ req.opened /\ otaState = "Committed")
       /\ ~(req.upload /\ req.opened /\ otaState = "Committed")
            => (resp'.status = 400 /\ pc' = "Check")]_vars

\* C13 - Flash open failure: when Update.begin fails at the start event the
\* session is Aborted at once, stays out of Committed for the rest of the
\* request, the completion handler answers 400 and no restart is requested.
C13_FlashOpenFailure ==
  [][/\ (req.route = "ota" /\ req.phase = "start" /\ ~req'.opened)
          => otaState' = "Aborted"
     /\ (InOtaUpload /\ ~req.opened) => otaState' = "Aborted"
     /\ (AtOtaCompletion /\ req.upload /\ ~req.opened)
          => (resp'.status = 400 /\ pc' = "Check")]_vars

\* C14 - Exit suppression is lifted after a firmware failure: once the OTA
\* session is Aborted (open failed or finalize failed) no OTA is marked in
\* progress, and the exit check that follows stops the loop when exit is
\* requested and goes on to the next poll otherwise.
C14_ExitLiftedAfterFailure ==
  [][/\ otaState' = "Aborted" => ~g_otaInProgress'
     /\ (pc = "Check" /\ otaState = "Aborted")
          => pc' = IF exitRequested' THEN "Stopping" ELSE "Poll"]_vars

\* The loop was left at an exit check after a firmware failure that the
\* flash-update primitive recorded
C14_Witness ==
  pc = "Stopping" /\ exitRequested /\ otaState = "Aborted" /\ update.error

\* C15 - Exit condition: the loop leaves for Stopping exactly at an exit
\* check at which exit is requested and the OTA session is neither Writing
\* nor Finalizing; every other exit check leads to the next poll, and
\* Stopping is entered from nowhere else.
C15_ExitCondition ==
  [][/\ pc = "Check"
          => /\ pc' \in {"Stopping", "Poll"}
             /\ pc' = "Stopping"
                  <=> (exitRequested' /\ otaState \notin {"Writing", "Finalizing"})
     /\ (pc' = "Stopping" /\ pc # "Stopping") => pc = "Check"]_vars

\* Exit was requested with no OTA ever started, right after a backup was
\* served, and the loop was left at that check
C15_Witness ==
  /\ pc = "Stopping" /\ exitRequested /\ otaState = "Idle"
  /\ clientFile.present

\* The /restore completion handler is about to run
AtRestoreCompletion ==
  pc = "Upload" /\ req.route = "restore" /\ req.phase = "complete"

\* C16 - Empty restore body: a /restore completion that finds an accumulated
\* body of length 0 answers 400 "Error: no file uploaded" (not a message of
\* the validator), leaves the record in memory and the persisted record as
\* they are, does not save and does not restart.
C16_EmptyRestoreBody ==
  [][(AtRestoreCompletion /\ Len(g_uploadBuffer) = 0)
       => /\ resp' = Response("restore", 400, "Error: no file uploaded",
                              NoIndex, <<>>)
          /\ g_storedVar' = g_storedVar
          /\ eeprom' = eeprom
          /\ saveCalls' = saveCalls
          /\ pc' = "Check"]_vars

\* A file part of 0 bytes was posted and answered
C16_Witness ==
  /\ RestoreAnswered /\ upDesc.arr = "empty"
  /\ resp.status = 400 /\ resp.text = "Error: no file uploaded"
  /\ RecordUntouched /\ pc = "Check"

\* The response bodies that begin with "OK"
OkTexts ==
  {"OK - Settings restored! Restarting...", "OK - Firmware updated! Restarting..."}

\* The response bodies that begin with "Error:"
ErrorTexts ==
  {"Error: no file uploaded", "Error: firmware update failed",
   "Error: missing cars array", "Error: malformed cars array",
   "Error: missing car profile ", "Error: missing name in car "}
  \cup {CarFields[j].err : j \in 1..Len(CarFields)}

\* The answered request succeeded: the restore was committed, or the OTA
\* session reached Committed
RequestSucceeded ==
  IF RestoreAnswered THEN saveCalls = 1 /\ eeprom = g_storedVar /\ RecordInRange(eeprom)
  ELSE otaState = "Committed"

\* C17 - Response conventions: every response of /restore and /ota is
\* either 200 with a body beginning with OK, sent only on success, or 400
\* with a body beginning with Error:, sent on every failure.
C17_ResponseConventions ==
  (RestoreAnswered \/ OtaAnswered) =>
    \/ resp.status = 200 /\ resp.text \in OkTexts /\ RequestSucceeded
    \/ resp.status = 400 /\ resp.text \in ErrorTexts /\ ~RequestSucceeded

\* The fields of a profile object that fail: 0 for a missing name, j for the
\* j-th numeric field of the fixed order when it is missing or out of range
DescBadFields(members) ==
  (IF MemberOf(members, K_name).found THEN {} ELSE {0})
  \cup {j \in 1..Len(DeclaredCarRanges) :
          \/ ~MemberOf(members, DeclaredCarRanges[j].k).found
          \/ MemberOf(members, DeclaredCarRanges[j].k).n
               \notin DeclaredCarRanges[j].lo..DeclaredCarRanges[j].hi}

\* The slots (from 1) of body d that hold a failing field
DescBadSlots(d) == {i \in 1..Len(d.cars) : DescBadFields(d.cars[i]) # {}}

\* The number of failing fields of body d
DescBadCount(d) ==
  Cardinality({p \in (1..Len(d.cars)) \X (0..Len(DeclaredCarRanges)) :
                 p[2] \in DescBadFields(d.cars[p[1]])})

\* The message that names field j
FieldErrorText(j) ==
  IF j = 0 THEN "Error: missing name in car "
  ELSE CHOOSE t \in {CarFields[x].err : x \in {y \in 1..Len(CarFields) :
                       CarFields[y].k = DeclaredCarRanges[j].k}} : TRUE

\* C18 - First-error reporting: when several profile fields of a body are
\* invalid and the restore is rejected, the response body names the first
\* failing field of the lowest failing slot, in the order name, minSpeed,
\* brake, dragBrake, maxSpeed, curveInput, curveDiff, antiSpin, freqPWM,
\* brakeButton, together with that slot's index.
C18_FirstErrorReporting ==
  (RestoreAnswered /\ resp.status = 400 /\ DescHasAllCars(upDesc)
     /\ DescBadCount(upDesc) >= 2)
    => /\ resp.car = Min(DescBadSlots(upDesc)) - 1
       /\ resp.text =
            FieldErrorText(Min(DescBadFields(upDesc.cars[Min(DescBadSlots(upDesc))])))

\* C19 - The record is mutated only by a successful /restore, at most once
\* per session: a step changes the record in memory, the persisted record
\* or the number of saves only if it is a /restore completion answering 200,
\* it is the first save, and it ends in the restart; after the restart
\* nothing is served.
C19_RecordFrame ==
  [][/\ (g_storedVar' # g_storedVar \/ eeprom' # eeprom \/ saveCalls' # saveCalls)
          => /\ AtRestoreCompletion
             /\ resp'.route = "restore" /\ resp'.status = 200
             /\ saveCalls = 0 /\ saveCalls' = 1
             /\ eeprom' = g_storedVar'
             /\ pc' = "Restarted"
     /\ pc # "Restarted"]_vars

\* After a served backup and a failed firmware update, which left the
\* record alone, one restore changed the record and restarted the device
C19_Witness ==
  /\ pc = "Restarted" /\ RestoreAnswered /\ resp.status = 200
  /\ saveCalls = 1 /\ eeprom # preVar /\ eeprom = g_storedVar
  /\ clientFile.present /\ otaState = "Aborted"

\* C20 - Failures are not fatal to the session: a rejected restore and a
\* failed firmware update (an upload whose session did not reach Committed)
\* end at the exit check, not in a restart, and the exit check that follows
\* a failure answer goes on to the next poll unless exit is requested, so
\* that a later request can be served.
C20_FailuresNotFatal ==
  [][/\ (AtRestoreCompletion /\ resp'.status # 200) => pc' = "Check"
     /\ (AtOtaCompletion /\ req.upload /\ otaState # "Committed") => pc' = "Check"
     /\ (pc = "Check" /\ resp.status = 400 /\ ~exitRequested') => pc' = "Poll"]_vars

\* The bodies that differ from d only in the value or the presence of the
\* version member
VersionVariants(d) ==
  {[d EXCEPT !.top = WithMember(d.top, K_version, v)] :
     v \in {0, 1, STORED_VAR_VERSION - 1, STORED_VAR_VERSION + 1}}
  \cup {[d EXCEPT !.top = WithoutMember(d.top, K_version)]}

\* C21 - Schema version is diagnostic only: a body with a version member
\* and every body that differs from it only in the value or the presence
\* of that member get the same answer (status, message, profile index) and
\* leave the same record.
C21_VersionDiagnosticOnly ==
  (RestoreAnswered /\ upDesc.arr \in {"array", "number", "none"}
     /\ MemberOf(upDesc.top, K_version).found)
    => \A e \in VersionVariants(upDesc) :
         RestoreOutcome(parseAndValidateJson(ClientJson(e), preVar), preVar)
           = RestoreDecision(resp.status = 200, g_storedVar, resp.status,
                             ErrorMsg(resp.text, resp.car))

\* A restore was accepted
RestoreAccepted == RestoreAnswered /\ resp.status = 200

\* C22 - Profile name bound: after a successful restore every profile name
\* of the committed record has at most CAR_NAME_MAX_SIZE - 1 characters
\* before its terminator, and for an uploaded array of profiles it is the
\* uploaded name cut to that length.
C22_ProfileNameBound ==
  RestoreAccepted =>
    \A i \in CarIdx :
      /\ Len(eeprom.carParam[i].carName) <= CAR_NAME_MAX_SIZE - 1
      /\ DescCarsValid(upDesc)
           => eeprom.carParam[i].carName
                = TruncatedName(MemberOf(upDesc.cars[i + 1], K_name).s)

\* C23 - Profile index equals position: after a successful restore the
\* committed profile in slot i has carNumber = i for every slot, also when
\* a profile of the body carries a carNumber member of its own.
C23_IndexEqualsPosition ==
  RestoreAccepted => \A i \in CarIdx : eeprom.carParam[i].carNumber = i

\* A body whose last profile carries a carNumber member naming another slot
\* was accepted
C23_Witness ==
  /\ RestoreAccepted /\ upDesc.arr = "array"
  /\ MemberOf(upDesc.cars[CAR_MAX_COUNT], K_carNumber).found
  /\ MemberOf(upDesc.cars[CAR_MAX_COUNT], K_carNumber).n # CAR_MAX_COUNT - 1
  /\ eeprom.carParam[CAR_MAX_COUNT - 1].carNumber = CAR_MAX_COUNT - 1

RECURSIVE ReturnedSum(_)
\* The number of bytes the flash primitive accepted over the logged chunks
ReturnedSum(log) ==
  IF log = <<>> THEN 0 ELSE Head(log).ret + ReturnedSum(Tail(log))

\* C24 - Short write accounting: a chunk of which the primitive accepts
\* fewer bytes than offered leaves the session in Writing, marked in
\* progress and without a response, and after every chunk g_otaWritten
\* equals the total number of bytes the primitive accepted in this upload.
C24_ShortWriteAccounting ==
  [][/\ (InOtaUpload /\ otaState = "Writing" /\ Len(otaLog') = Len(otaLog) + 1
           /\ otaLog'[Len(otaLog')].ret < otaLog'[Len(otaLog')].size)
          => (otaState' = "Writing" /\ g_otaInProgress' /\ resp' = NoResp)
     /\ InOtaUpload' => g_otaWritten' = ReturnedSum(otaLog')]_vars

\* C25 - Terminal states are visited at most once: once the session of an
\* upload is Committed or Aborted it stays in that state for the rest of
\* the upload, no later chunk is accepted by the flash primitive and no
\* finalize changes the primitive.
C25_TerminalOnce ==
  [][(InOtaUpload /\ otaState \in {"Committed", "Aborted"})
       => /\ otaState' = otaState
          /\ Len(otaLog') > Len(otaLog) => otaLog'[Len(otaLog')].ret = 0
          /\ update' = update]_vars

\* The members of a member list whose value is a malformed number
RawKeys(members) == {members[j].k : j \in {x \in 1..Len(members) : members[x].kind = "raw"}}

\* C26 - parseJsonInt returns absent for malformed tokens: a body in which
\* a numeric profile field has a malformed value is rejected with the error
\* of that field, and a device-wide scalar with a malformed value keeps the
\* value it had before the restore.
C26_MalformedIsAbsent ==
  (RestoreAnswered /\ upDesc.arr = "array")
    => /\ \A i \in 1..Len(upDesc.cars) :
            K_brake \in RawKeys(upDesc.cars[i])
              => (resp.status = 400 /\ resp.text = "Error: invalid brake in car "
                    /\ resp.car = i - 1)
       /\ K_viewMode \in RawKeys(upDesc.top)
            => g_storedVar.viewMode = preVar.viewMode

\* C27 - Parsing is total: for every body text, truncated or unbalanced
\* ones included, the validator returns, and the restore is either accepted
\* with the candidate record committed or rejected with a non-empty error
\* message and nothing changed; there is no third outcome.
C27_ParsingTotal ==
  (pc # "Upload" /\ upDesc.arr # "empty")
    => /\ RestoreAnswered
       /\ \/ (resp.status = 200 /\ resp.text \in OkTexts
                /\ saveCalls = 1 /\ eeprom = g_storedVar)
          \/ (resp.status = 400 /\ resp.text \in ErrorTexts /\ RecordUntouched)

\* A body cut off in the middle has been rejected with a message
C27_Witness ==
  /\ RestoreAnswered /\ upDesc.arr = "text"
  /\ resp.status = 400 /\ resp.text = "Error: missing name in car "

\* What the validator makes of the (i+1)-th block of body d for slot i
DescBlockResult(d, cur, i) ==
  parseCar(ObjectText(d.cars[i + 1]), cur.carParam[i], i)

\* The blocks of d that are used: the first N, or all when there are fewer
DescUsedBlocks(d) ==
  0..((IF Len(d.cars) < CAR_MAX_COUNT THEN Len(d.cars) ELSE CAR_MAX_COUNT) - 1)

DescBlocksOk(d, cur) == \A i \in DescUsedBlocks(d) : DescBlockResult(d, cur, i).ok

\* C28 - Profile blocks are taken in order, exactly N times: a body without
\* the cars marker, or without "[" after it, is rejected; otherwise slot i
\* is populated by the i-th block of the array and by no other, a body with
\* fewer than N blocks is rejected naming the first missing index, and
\* blocks after the N-th are ignored.
C28_BlocksInOrder ==
  RestoreAnswered
    => /\ upDesc.arr = "none"
            => (resp.status = 400 /\ resp.text = "Error: missing cars array")
       /\ upDesc.arr = "number"
            => (resp.status = 400 /\ resp.text = "Error: malformed cars array")
       /\ (upDesc.arr = "array" /\ resp.status = 200)
            => /\ Len(upDesc.cars) >= CAR_MAX_COUNT
               /\ \A i \in CarIdx :
                    g_storedVar.carParam[i] = DescBlockResult(upDesc, preVar, i).c
       /\ (upDesc.arr = "array" /\ DescBlocksOk(upDesc, preVar))
            => IF Len(upDesc.cars) < CAR_MAX_COUNT
               THEN /\ resp.status = 400
                    /\ resp.text = "Error: missing car profile "
                    /\ resp.car = Len(upDesc.cars)
               ELSE resp.status = 200

\* A body with N + 1 blocks, the last one invalid, has been accepted with
\* the last slot taken from the N-th block
C28_Witness ==
  /\ RestoreAccepted /\ upDesc.arr = "array"
  /\ Len(upDesc.cars) = CAR_MAX_COUNT + 1
  /\ MemberOf(upDesc.cars[CAR_MAX_COUNT + 1], K_maxSpeed).n = 101
  /\ g_storedVar.carParam[CAR_MAX_COUNT - 1]
       = DescBlockResult(upDesc, preVar, CAR_MAX_COUNT - 1).c

\* The text the client posts in the file part of the current request
PostedText ==
  IF upDesc.arr = "backup" /\ clientFile.present /\ upDesc.rec = clientFile.rec
  THEN clientFile.text
  ELSE BodyText(upDesc)

\* C29 - Restore body buffering: the start event of a /restore upload
\* empties the buffer; the text a /restore completion validates is the
\* concatenation of the chunks delivered for that request (nothing when the
\* request had no file part); the buffer is empty after every completion.
C29_RestoreBodyBuffering ==
  [][/\ (pc = "Upload" /\ req.route = "restore" /\ req.phase = "start")
          => g_uploadBuffer' = <<>>
     /\ AtRestoreCompletion
          => /\ g_uploadBuffer = (IF req.upload THEN PostedText ELSE <<>>)
             /\ g_uploadBuffer' = <<>>]_vars

\* C30 - Clean slate per session: at every entry to showWiFiBackupScreen,
\* the first and every later one, the upload buffer is empty, g_otaWritten
\* and g_otaTotal are 0 and no OTA is marked in progress.
C30_CleanSlate ==
  [][(pc = "Menu" /\ pc' = "Poll")
       => /\ g_uploadBuffer' = <<>>
          /\ g_otaWritten' = 0
          /\ g_otaTotal' = 0
          /\ ~g_otaInProgress']_vars

Precedes(seq, a, b) ==
  /\ \E i \in 1..Len(seq) : seq[i] = a
  /\ \A i, j \in 1..Len(seq) : (seq[i] = a /\ seq[j] = b) => i < j

Serving == pc \in {"Poll", "Upload", "Check"}

\* C33 - Session lifecycle: Starting, Serving and Stopping follow each other
\* in that order and never backwards; requests are handled only while the
\* access point is up and the routes are bound; when the loop is left, the
\* server is stopped and released and the access point is shut down before
\* showWiFiBackupScreen returns.
C33_SessionLifecycle ==
  [][/\ pc = "Menu" => (pc' = "Poll" /\ apUp' /\ serverUp')
     /\ Serving
          => /\ apUp /\ serverUp
             /\ pc' \in {"Poll", "Upload", "Check", "Stopping", "Restarted"}
     /\ pc' = "Stopping" => pc = "Check"
     /\ pc = "Stopping" => (pc' = "Menu" /\ ~apUp' /\ ~serverUp')
     /\ pc' = "Menu" => (pc = "Stopping" /\ ~apUp' /\ ~serverUp')
     /\ (resp' # resp /\ resp' # NoResp) => (Serving /\ apUp /\ serverUp)]_vars

\* showWiFiBackupScreen has returned after a session in which a backup was
\* downloaded
C33_Witness ==
  pc = "Menu" /\ clientFile.present /\ ~apUp /\ ~serverUp

\* C34 - The session can always be closed: handleClient has returned with
\* no request under way, and the user keeps asking to leave; then the loop
\* is eventually left (Stopping), unless a later request restarts the
\* device first.
C34_SessionCanClose ==
  (pc = "Check" /\ req = NoReq) ~> (pc \in {"Stopping", "Restarted"})

RECURSIVE OfferedSum(_)
\* The number of bytes the transport offered over the logged chunks
OfferedSum(log) ==
  IF log = <<>> THEN 0 ELSE Head(log).size + OfferedSum(Tail(log))

\* C35 - A reported firmware success implies a complete image: whenever
\* /ota answers 200, every chunk offered in that request was accepted in
\* full by the flash primitive and g_otaWritten equals the number of bytes
\* the transport offered.
C35_SuccessImpliesCompleteImage ==
  (OtaAnswered /\ resp.status = 200)
    => /\ \A i \in 1..Len(otaLog) : otaLog[i].ret = otaLog[i].size
       /\ g_otaWritten = OfferedSum(otaLog)

\* The device-wide settings of the candidate record the validator builds
\* from body d while the record in memory is cur
CandidateDeviceWide(d, cur) ==
  DeviceWide(parseAndValidateJson(ClientJson(d), cur).sv)

\* C36 - Profile content cannot influence device-wide settings: two bodies
\* with the same top-level members that differ only inside the cars array
\* give candidate records with the same device-wide settings; every body
\* is compared with the one that has its top-level members and the N valid
\* profiles.
C36_ProfilesDoNotReachDeviceWide ==
  (RestoreAnswered /\ upDesc.arr = "array")
    => /\ CandidateDeviceWide(upDesc, preVar)
            = CandidateDeviceWide([upDesc EXCEPT !.cars = GoodCars], preVar)
       /\ resp.status = 200
            => DeviceWide(g_storedVar)
                 = CandidateDeviceWide([upDesc EXCEPT !.cars = GoodCars], preVar)

RECURSIVE DigitsMod16(_, _, _)
\* The number written by the digits s[i..] after the value acc, modulo 2^16
DigitsMod16(s, i, acc) ==
  IF i > Len(s) THEN acc
  ELSE DigitsMod16(s, i + 1, (acc * 10 + DigitVal(s[i])) % 65536)

\* The value of member m reduced modulo 2^16 into the range of int16_t
Reduced16(m) ==
  IF m.s = <<>> THEN I16(m.n)
  ELSE IF m.s[1] = "-" THEN I16(-DigitsMod16(m.s, 2, 0))
  ELSE I16(DigitsMod16(m.s, 1, 0))

TriggerKeys == {K_minTrigger_raw, K_maxTrigger_raw}

TriggerField(r, key) ==
  IF key = K_minTrigger_raw THEN r.minTrigger_raw ELSE r.maxTrigger_raw

\* C37 - Trigger calibration is stored without a range check: a present,
\* well-formed minTrigger_raw / maxTrigger_raw value never causes rejection
\* and is never ignored: the restore is answered as it would be without the
\* member, and when it is accepted the field holds the value itself if it
\* fits int16_t and the value reduced modulo 2^16 otherwise.
C37_TriggerStoredUnchecked ==
  (RestoreAnswered /\ upDesc \in TriggerBodies)
    => \A key \in TriggerKeys :
         /\ resp.status = 200
         /\ TriggerField(g_storedVar, key) = Reduced16(MemberOf(upDesc.top, key))

====
